---- MODULE Spec2Model ----
(***************************************************************************)
(* Verification model of the web-novel translator: the response-contract   *)
(* extraction, the two retry controllers (storage.ts and App.tsx), the     *)
(* handleTranslate run with the user's handlers of App.tsx, and the        *)
(* segmented glossary builder of glossaryService.ts.                       *)
(*                                                                         *)
(* Texts are sequences of tokens (strings).  A token is a marker variant,  *)
(* a whitespace character, a word, a chapter tag or a block of prose; an   *)
(* error message is a sequence of the phrases it is made of, so that       *)
(* String.includes becomes "one of the phrases is the needle".             *)
(***************************************************************************)
EXTENDS Integers, Sequences, FiniteSets, TLC

VARIABLES
    \* ---- retry controller harness (storage.ts / App.tsx callGeminiApi)
    ctl,            \* which controller runs: "storage" or "app"
    maxRetries,     \* the maxRetries argument (App.tsx: the constant 3)
    script,         \* what the completion service does on its n-th call
    rpc,            \* "parked", "call" (an attempt is in flight) or "done"
    retries,        \* the controller's local retries
    invocations,    \* number of translateSingleChapter invocations made
    delays,         \* number of 1-second delays taken
    result,         \* the controller's outcome once rpc = "done"
    \* ---- App.tsx component state
    translatedChapters, isTranslating, translationProgress, status,
    showFallbackInput, fallbackChapterNumber, fallbackText, fallbackType,
    editingChapter, editText, selectedChapter,
    \* ---- the handleTranslate run in progress (its closure and locals)
    pc,             \* "idle", "call" (request in flight), "delay" (3 s wait)
    run,            \* locals of the run, kept after its end for inspection
    requests,       \* chapter numbers of the completion requests of the run
    fbPending,      \* handleFallbackSubmit (Japanese) awaiting its reply
    stopRequested,  \* the user-settable stop flag
    budget,         \* number of runs started and of user gestures made so far
    \* ---- the API key field and the browser's persistent storage
    geminiApiKey,   \* the geminiApiKey state of App
    localStorage,   \* window.localStorage: the items of App's storage keys
    \* ---- generateGlossarySegments run
    gpc, gopts, segmentIndex, retryCount, segments, greqs, gdelays, gresult,
    glast,          \* the last call of parseGlossaryResponse: reply and outcome
    \* ---- one raw response handed to the extractor and to the translators
    raw,            \* the raw text of the response
    tpc,            \* "parked", "start" or "done"
    tout,           \* what the extractor and the two translators made of it
    \* ---- the book
    epub,           \* the last book that was assembled, and from which list
    htext,          \* a chapter text handed to convertTextToHTML
    hpc,            \* "parked", "start" or "done"
    hout,           \* the markup both convertTextToHTML functions made of it
    \* ---- a glossary collection under the collection operations
    collection,     \* the collection: its segments and its lastModified
    cerror,         \* the error the last operation threw, or <<>>
    cclock          \* Date.now(): the number of operations applied so far

retryVars == <<ctl, maxRetries, script, rpc, retries, invocations, delays, result>>
stateVars == <<translatedChapters, isTranslating, translationProgress, status,
               showFallbackInput, fallbackChapterNumber, fallbackText, fallbackType,
               editingChapter, editText, selectedChapter>>
runVars == <<pc, run, requests, fbPending, stopRequested>>
storeVars == <<geminiApiKey, localStorage>>
appVars == <<stateVars, runVars, budget, storeVars>>
glosVars == <<gpc, gopts, segmentIndex, retryCount, segments, greqs, gdelays, gresult, glast>>
textVars == <<raw, tpc, tout>>
bookVars == <<epub, htext, hpc, hout>>
collVars == <<collection, cerror, cclock>>
vars == <<retryVars, appVars, glosVars, textVars, bookVars, collVars>>

Min(a, b) == IF a < b THEN a ELSE b
Max(a, b) == IF a > b THEN a ELSE b

(***************************************************************************)
(* Texts                                                                   *)
(***************************************************************************)
IsSpace(t) == t \in {" ", "\n", "\r"}

RECURSIVE TrimStart(_)
TrimStart(s) == IF s # <<>> /\ IsSpace(Head(s)) THEN TrimStart(Tail(s)) ELSE s

RECURSIVE TrimEnd(_)
TrimEnd(s) ==
    IF s # <<>> /\ IsSpace(s[Len(s)]) THEN TrimEnd(SubSeq(s, 1, Len(s) - 1)) ELSE s

Trim(s) == TrimEnd(TrimStart(s))

\* String.prototype.toLowerCase on one token that keeps its length
ToLowerCase(t) ==
    CASE t = "***TRANSLATION_START***" -> "***translation_start***"
      [] t = "***TRANSLATION_END***" -> "***translation_end***"
      [] t = "***Translation_End***" -> "***translation_end***"
      [] t = "START:" -> "start:"
      [] t = "END:" -> "end:"
      [] t = "**START**" -> "**start**"
      [] t = "**END**" -> "**end**"
      [] t = "[Chapter: 2]" -> "[chapter: 2]"
      [] t = "Chapter" -> "chapter"
      [] OTHER -> t

\* number of characters of a token; "PROSE" stands for a block of 120
\* characters of translated prose without the word chapter
TokenLength(t) ==
    CASE t = "PROSE" -> 120
      [] t = "***TRANSLATION_START***" -> 23
      [] t = "***translation_start***" -> 23
      [] t = "***TRANSLATION_END***" -> 21
      [] t = "***Translation_End***" -> 21
      [] t = "***translation_end***" -> 21
      [] t = "{{start}}" -> 9
      [] t = "{{end}}" -> 7
      [] t = "[chapter: 1]" -> 12
      [] t = "[Chapter: 2]" -> 12
      [] t = "chapter" -> 7
      [] t = "Chapter" -> 7
      [] t = "Title" -> 5
      [] t = "Body." -> 5
      [] t = "Sorry." -> 6
      [] OTHER -> 1

RECURSIVE TextLength(_)
TextLength(s) == IF s = <<>> THEN 0 ELSE TokenLength(Head(s)) + TextLength(Tail(s))

Includes(s, needle) == \E i \in 1..Len(s) : s[i] = needle

\* fullText.includes('[chapter:') and fullText.includes('chapter'), case-sensitive
IncludesChapterTag(s) == Includes(s, "[chapter: 1]")
IncludesChapterWord(s) == Includes(s, "[chapter: 1]") \/ Includes(s, "chapter")

\* String.prototype.toLowerCase on a text.  "I_DOT" is the one character
\* whose lower case is longer than itself: U+0130 (capital I with dot above)
\* becomes U+0069 U+0307, two characters.
RECURSIVE TextToLowerCase(_)
TextToLowerCase(s) ==
    IF s = <<>> THEN <<>>
    ELSE (IF Head(s) = "I_DOT" THEN <<"i", "COMBINING_DOT">> ELSE <<ToLowerCase(Head(s))>>)
             \o TextToLowerCase(Tail(s))

\* String.prototype.substring on the positions first..last (1-based,
\* inclusive): positions past the end of the text are clamped to it
Substring(s, first, last) == SubSeq(s, Min(first, Len(s) + 1), Min(last, Len(s)))

\* fullText.toLowerCase().indexOf(marker.toLowerCase()): a position of the
\* lower-cased text; 0 stands for -1
IndexOf(s, marker) ==
    LET low == TextToLowerCase(s)
        hits == {i \in 1..Len(low) : low[i] = ToLowerCase(marker)}
    IN IF hits = {} THEN 0 ELSE CHOOSE i \in hits : \A j \in hits : i <= j

LastIndexOf(s, marker) ==
    LET low == TextToLowerCase(s)
        hits == {i \in 1..Len(low) : low[i] = ToLowerCase(marker)}
    IN IF hits = {} THEN 0 ELSE CHOOSE i \in hits : \A j \in hits : i >= j

START_MARKERS ==
    <<"***TRANSLATION_START***", "{{start}}", "{{ start }}", "{start}", "START:", "**START**">>
END_MARKERS ==
    <<"***TRANSLATION_END***", "{{end}}", "{{ end }}", "{end}", "END:", "**END**">>

\* the "for (const marker of ...) { if (index !== -1) ... break }" loops:
\* the first marker variant of the list that occurs decides the index
RECURSIVE FindStartFrom(_, _, _)
FindStartFrom(s, markers, k) ==
    IF k > Len(markers) THEN 0
    ELSE IF IndexOf(s, markers[k]) # 0 THEN IndexOf(s, markers[k])
    ELSE FindStartFrom(s, markers, k + 1)

RECURSIVE FindEndFrom(_, _, _)
FindEndFrom(s, markers, k) ==
    IF k > Len(markers) THEN 0
    ELSE IF LastIndexOf(s, markers[k]) # 0 THEN LastIndexOf(s, markers[k])
    ELSE FindEndFrom(s, markers, k + 1)

\* /\[chapter:\s*\d+\]/i on one token
IsChapterTag(t) == ToLowerCase(t) \in {"[chapter: 1]", "[chapter: 2]"}

\* /(?:^|\n)\s*([^\n]+\s*\[chapter:\s*\d+\])/i starting at p (0 is ^): some
\* white space, then at least one character of a line, then some white
\* space, then the tag
TitleLineAt(s, p) ==
    /\ p = 0 \/ s[p] = "\n"
    /\ \E j \in (p + 2)..Len(s) :
         /\ IsChapterTag(s[j])
         /\ \E q \in (p + 1)..(j - 1), r \in (p + 1)..(j - 1) :
              /\ q <= r
              /\ \A x \in (p + 1)..(q - 1) : IsSpace(s[x])
              /\ \A x \in q..r : s[x] # "\n"
              /\ \A x \in (r + 1)..(j - 1) : IsSpace(s[x])

\* match.index of the regular expression, -1 when there is no match
TitleLineIndex(s) ==
    LET hits == {p \in 0..Len(s) : TitleLineAt(s, p)}
    IN IF hits = {} THEN -1 ELSE CHOOSE p \in hits : \A r \in hits : p <= r

NoText == <<>>

extractTranslationText(fullText) ==
    LET startIndex == FindStartFrom(fullText, START_MARKERS, 1)
        endIndex == FindEndFrom(fullText, END_MARKERS, 1)
    IN IF startIndex # 0 /\ endIndex # 0 /\ endIndex > startIndex
       THEN LET extractedText == Trim(Substring(fullText, startIndex + 1, endIndex - 1))
            IN IF extractedText = <<>> THEN [success |-> FALSE, text |-> NoText]
               ELSE [success |-> TRUE, text |-> extractedText]
       ELSE IF startIndex = 0 /\ endIndex # 0
       THEN LET beforeEndMarker == Substring(fullText, 1, endIndex - 1)
                index == TitleLineIndex(beforeEndMarker)
                extractedText ==
                    Trim(Substring(beforeEndMarker, Max(index, 1), Len(beforeEndMarker)))
            IN IF index # -1 /\ extractedText # <<>>
               THEN [success |-> TRUE, text |-> extractedText]
               ELSE [success |-> FALSE, text |-> NoText]
       ELSE [success |-> FALSE, text |-> NoText]

(***************************************************************************)
(* The completion service: one call either fails with a message or streams *)
(* back a text.                                                            *)
(***************************************************************************)
Fault(message) == [kind |-> "fault", message |-> message, text |-> NoText]
Reply(text) == [kind |-> "reply", message |-> <<>>, text |-> text]

\* faults that no retry controller classifies as terminal
TransientFaults == {Fault(<<"fetch failed">>), Fault(<<"503", "Service Unavailable">>)}

\* the substrings the retry controllers look for in a message
TerminalNeedles ==
    {"403", "blocked", "access denied", "ByteString", "character at index",
     "greater than 255", "empty content", "markers", "inaccessible"}

TerminalFaults == {Fault(<<"Error:", n>>) : n \in TerminalNeedles}

ReplyWithMarkers ==
    <<"***TRANSLATION_START***", "\n", "Title", " ", "[chapter: 1]", "\n", "Body.",
      "\n", "***TRANSLATION_END***">>
ReplyBlank == <<" ", "\n">>
ReplyMarkersOnly == <<"***TRANSLATION_START***", "\n", "***TRANSLATION_END***">>
ReplyNoMarkers == <<"Title", " ", "[chapter: 1]", "\n", "PROSE">>
ReplyNotATranslation == <<"Sorry.">>
ReplyChapterWord == <<"chapter", " ", "PROSE">>

Replies ==
    {Reply(ReplyWithMarkers), Reply(ReplyBlank), Reply(ReplyMarkersOnly),
     Reply(ReplyNoMarkers), Reply(ReplyNotATranslation), Reply(ReplyChapterWord)}

ApiBehaviours == TransientFaults \cup TerminalFaults \cup Replies

(***************************************************************************)
(* Error messages of the translators                                       *)
(***************************************************************************)
MsgEmptyContent ==
    <<"Translation returned", "empty content", "The chapter might be", "blocked", "or",
      "inaccessible">>
MsgMarkersEmpty ==
    <<"Translation", "markers", "found but content is empty", "The translation may have failed">>
MsgNotValid ==
    <<"Translation", "markers", "not found and response doesn't appear to be a valid translation">>
MsgWithoutMarkers == <<"TRANSLATION_WITHOUT_MARKERS">>
MsgExhausted == <<"Failed to translate chapter after multiple fresh attempts.">>

\* the minimum length above which a reply without markers is chapter-like
ChapterLikeLength == 100

\* outcome of one translateSingleChapter invocation:
\*   "ok"    the translated text (storage.ts: {success: true, text})
\*   "fail"  storage.ts only: {success: false, error: message}
\*   "throw" an exception of the given class with the given message
Ok(text) ==
    [kind |-> "ok", text |-> text, class |-> "", message |-> <<>>, fullText |-> NoText]
Fail(message) ==
    [kind |-> "fail", text |-> NoText, class |-> "", message |-> message, fullText |-> NoText]
Throw(class, message, fullText) ==
    [kind |-> "throw", text |-> NoText, class |-> class, message |-> message,
     fullText |-> fullText]

LooksLikeChapter_AnyLength(fullText) ==
    \/ IncludesChapterTag(fullText)
    \/ IncludesChapterWord(fullText)
    \/ TextLength(fullText) > 0

LooksLikeChapter(fullText) ==
    \/ IncludesChapterTag(fullText)
    \/ IncludesChapterWord(fullText)
    \/ TextLength(fullText) > ChapterLikeLength

\* storage.ts translateSingleChapter: every error but the markers error is
\* caught and turned into a failure result
translateSingleChapter(api) ==
    IF api.kind = "fault" THEN Fail(api.message)
    ELSE LET fullText == api.text
             extraction == extractTranslationText(fullText)
         IN IF Trim(fullText) = <<>> THEN Fail(MsgEmptyContent)
            ELSE IF extraction.success /\ extraction.text # <<>> THEN Ok(extraction.text)
            ELSE IF LooksLikeChapter(fullText)
            THEN Throw("TranslationWithoutMarkersError", MsgWithoutMarkers, fullText)
            ELSE Fail(MsgNotValid)

\* the marker lists of App.tsx
possibleStartMarkers ==
    <<"***TRANSLATION_START***", "{{start}}", "{{ start }}", "{start}", "START:", "**START**">>
possibleEndMarkers ==
    <<"***TRANSLATION_END***", "{{end}}", "{{ end }}", "{end}", "END:", "**END**">>

\* App.tsx translateSingleChapter: returns the text or throws
AppTranslateSingleChapter(api) ==
    IF api.kind = "fault" THEN Throw("Error", api.message, NoText)
    ELSE LET fullText == api.text
             startIndex == FindStartFrom(fullText, possibleStartMarkers, 1)
             endIndex == FindEndFrom(fullText, possibleEndMarkers, 1)
             extractedText == Trim(Substring(fullText, startIndex + 1, endIndex - 1))
         IN IF Trim(fullText) = <<>> THEN Throw("Error", MsgEmptyContent, NoText)
            ELSE IF startIndex # 0 /\ endIndex # 0 /\ endIndex > startIndex
            THEN IF extractedText = <<>> THEN Throw("Error", MsgMarkersEmpty, NoText)
                 ELSE Ok(extractedText)
            ELSE IF LooksLikeChapter(fullText)
            THEN Throw("Error", MsgWithoutMarkers, fullText)
            ELSE Throw("Error", MsgNotValid, NoText)

(***************************************************************************)
(* Retry controllers.  A step takes the local retries and the outcome of   *)
(* the attempt that just ended and says how the controller goes on:        *)
(*   act = "return"  the controller returns `out`                          *)
(*   act = "throw"   the controller throws `out`                           *)
(*   act = "retry"   it waits one second and makes a new attempt           *)
(***************************************************************************)
Step(act, r, out) == [act |-> act, retries |-> r, out |-> out]

\* storage.ts: the list of messages that stop the retries
NonRetryable(errorMessage) ==
    \/ Includes(errorMessage, "403")
    \/ Includes(errorMessage, "blocked")
    \/ Includes(errorMessage, "access denied")
    \/ Includes(errorMessage, "ByteString")
    \/ Includes(errorMessage, "character at index")
    \/ Includes(errorMessage, "greater than 255")
    \/ Includes(errorMessage, "empty content")
    \/ Includes(errorMessage, "markers")
    \/ Includes(errorMessage, "inaccessible")

\* translateChapterWithRetry without the `instanceof TranslationWithoutMarkersError`
\* rethrow of its catch block
translateChapterWithRetryStep_NoRethrow(r, max, attempt) ==
    IF attempt.kind # "throw" THEN Step("return", r, attempt)
    ELSE IF NonRetryable(attempt.message)
    THEN Step("return", r + 1, Fail(attempt.message \o <<"(non-retryable error)">>))
    ELSE IF r + 1 < max THEN Step("retry", r + 1, attempt)
    ELSE Step("return", r + 1, Fail(MsgExhausted))

\* storage.ts translateChapterWithRetry, one turn of its while loop after the
\* attempt ended with `attempt`
translateChapterWithRetryStep(r, max, attempt) ==
    IF attempt.kind # "throw" THEN Step("return", r, attempt)
    ELSE IF attempt.class = "TranslationWithoutMarkersError" THEN Step("throw", r, attempt)
    ELSE IF NonRetryable(attempt.message)
    THEN Step("return", r + 1, Fail(attempt.message \o <<"(non-retryable error)">>))
    ELSE IF r + 1 < max THEN Step("retry", r + 1, attempt)
    ELSE Step("return", r + 1, Fail(MsgExhausted))

\* the access-denied group without its 'blocked' test
AccessDenied_NoBlocked(errorMessage) ==
    \/ Includes(errorMessage, "403")
    \/ Includes(errorMessage, "access denied")

\* App.tsx callGeminiApi: its three groups of messages that are not retried
AccessDenied(errorMessage) ==
    \/ Includes(errorMessage, "403")
    \/ Includes(errorMessage, "blocked")
    \/ Includes(errorMessage, "access denied")

EncodingError(errorMessage) ==
    \/ Includes(errorMessage, "ByteString")
    \/ Includes(errorMessage, "character at index")
    \/ Includes(errorMessage, "greater than 255")

ContentAccessIssue(errorMessage) ==
    \/ Includes(errorMessage, "empty content")
    \/ Includes(errorMessage, "markers")
    \/ Includes(errorMessage, "inaccessible")

\* maxRetries of callGeminiApi
AppMaxRetries == 3

\* App.tsx callGeminiApi, one turn of its while loop
\* callGeminiApi whose catch block rethrows whatever the attempt threw
callGeminiApiStep_NoRetry(r, attempt) ==
    IF attempt.kind = "ok" THEN Step("return", r, attempt)
    ELSE Step("throw", r + 1, attempt)

\* App.tsx callGeminiApi, one turn of its while loop after the attempt ended
\* with `attempt`
callGeminiApiStep(r, attempt) ==
    IF attempt.kind = "ok" THEN Step("return", r, attempt)
    ELSE IF AccessDenied(attempt.message)
    THEN Step("throw", r + 1,
              Throw("Error", <<"Access denied or blocked for chapter", "Original error:">>
                               \o attempt.message, NoText))
    ELSE IF EncodingError(attempt.message)
    THEN Step("throw", r + 1,
              Throw("Error", <<"Character encoding error", "Original error:">>
                               \o attempt.message, NoText))
    ELSE IF ContentAccessIssue(attempt.message)
    THEN Step("throw", r + 1,
              Throw("Error", <<"Chapter appears to be blocked or inaccessible",
                               "Original error:">> \o attempt.message, NoText))
    ELSE IF r + 1 < AppMaxRetries THEN Step("retry", r + 1, attempt)
    ELSE Step("throw", r + 1, attempt)

(***************************************************************************)
(* Harness of the retry controllers: one call of translateChapterWithRetry *)
(* (storage.ts) or of callGeminiApi (App.tsx) against a completion service *)
(* whose behaviour on each successive call is given by `script`.           *)
(***************************************************************************)
MaxMaxRetries == 3

NoResult == [kind |-> "none", text |-> NoText, class |-> "", message |-> <<>>, fullText |-> NoText]

RetryParked ==
    /\ ctl = "storage"
    /\ maxRetries = 0
    /\ script = <<>>
    /\ rpc = "parked"
    /\ retries = 0
    /\ invocations = 0
    /\ delays = 0
    /\ result = NoResult

RetryInit ==
    /\ ctl \in {"storage", "app"}
    /\ maxRetries \in (IF ctl = "app" THEN {AppMaxRetries} ELSE 0..MaxMaxRetries)
    /\ script \in [1..maxRetries -> ApiBehaviours]
    /\ rpc = "start"
    /\ retries = 0
    /\ invocations = 0
    /\ delays = 0
    /\ result = NoResult

\* the attempt the controller makes on its n-th invocation
Attempt(n) ==
    IF ctl = "storage" THEN translateSingleChapter(script[n])
    ELSE AppTranslateSingleChapter(script[n])

StepOf(attempt) ==
    IF ctl = "storage" THEN translateChapterWithRetryStep(retries, maxRetries, attempt)
    ELSE callGeminiApiStep(retries, attempt)

\* what the caller of the controller gets
Outcome(step) ==
    IF step.act = "throw" THEN [step.out EXCEPT !.kind = "thrown"]
    ELSE IF step.out.kind = "ok" THEN [step.out EXCEPT !.kind = "success"]
    ELSE [step.out EXCEPT !.kind = "failure"]

\* entry of the controller: `while (retries < maxRetries)` is evaluated for
\* the first time and the first attempt is started
ControllerStart ==
    /\ rpc = "start"
    /\ IF retries < maxRetries
       THEN /\ rpc' = "call"
            /\ invocations' = invocations + 1
            /\ result' = result
       ELSE /\ rpc' = "done"
            /\ invocations' = invocations
            /\ result' = [NoResult EXCEPT !.kind = "failure", !.message = MsgExhausted]
    /\ UNCHANGED <<ctl, maxRetries, script, retries, delays>>
    /\ UNCHANGED <<appVars, glosVars, textVars, bookVars, collVars>>

\* the attempt in flight ends; the controller returns, throws, or waits one
\* second and starts the next attempt
AttemptEnds ==
    /\ rpc = "call"
    /\ LET step == StepOf(Attempt(invocations))
       IN /\ retries' = step.retries
          /\ IF step.act = "retry"
             THEN /\ delays' = delays + 1
                  /\ invocations' = invocations + 1
                  /\ rpc' = "call"
                  /\ result' = result
             ELSE /\ delays' = delays
                  /\ invocations' = invocations
                  /\ rpc' = "done"
                  /\ result' = Outcome(step)
    /\ UNCHANGED <<ctl, maxRetries, script>>
    /\ UNCHANGED <<appVars, glosVars, textVars, bookVars, collVars>>

NextRetry == ControllerStart \/ AttemptEnds

(***************************************************************************)
(* App.tsx: the chapter list and the handlers of the component.            *)
(* Chapter numbers are positive; 0 stands for null.  The form fields       *)
(* startChapter and numChapters are read by handleTranslate only and are   *)
(* its inputs here.                                                        *)
(***************************************************************************)
MaxStartChapter == 2
MaxNumChapters == 3
MaxListLength == 4
\* a session has at most MaxRuns clicks on Translate and MaxGestures other
\* uses of a control by the user
MaxRuns == 2
MaxGestures == 3

Chapter(n, text) == [chapterNumber |-> n, translatedText |-> text]

\* what the completion service may do on a call made by a handleTranslate run
RunBehaviours ==
    {Reply(ReplyWithMarkers), Reply(ReplyNoMarkers), Fault(<<"fetch failed">>),
     Fault(<<"Error:", "blocked">>)}

\* what it may do on the call of handleFallbackSubmit
FallbackBehaviours == {Reply(ReplyWithMarkers), Fault(<<"fetch failed">>)}

\* what the user may type into the manual input and into the chapter editor
FallbackInputs == {<<"Manual">>, <<" ">>}
EditInputs == {<<"Edited">>}

HasChapter(list, n) == \E k \in 1..Len(list) : list[k].chapterNumber = n

\* Array.prototype.sort((a, b) => a.chapterNumber - b.chapterNumber): stable
RECURSIVE InsertChapter(_, _)
InsertChapter(sorted, ch) ==
    IF sorted = <<>> THEN <<ch>>
    ELSE IF sorted[Len(sorted)].chapterNumber <= ch.chapterNumber THEN Append(sorted, ch)
    ELSE Append(InsertChapter(SubSeq(sorted, 1, Len(sorted) - 1), ch), sorted[Len(sorted)])

RECURSIVE SortChapters(_)
SortChapters(list) ==
    IF list = <<>> THEN <<>>
    ELSE InsertChapter(SortChapters(SubSeq(list, 1, Len(list) - 1)), list[Len(list)])

\* the render that follows a state update sorts the list in place
\* (translatedChapters.sort(...) in the JSX of the table of contents)
Rendered(list) == SortChapters(list)

\* Math.round((a / b) * 100) for b > 0
RoundPercent(a, b) == (200 * a + b) \div (2 * b)

\* the loop of handleTranslate without its `continue` for a chapter that exists
NextIndex_NoSkip(list, start, num, i) == i

\* the loop of handleTranslate from index i on: the first index whose chapter
\* is not in the list yet (the others are skipped), or num when there is none
RECURSIVE NextIndex(_, _, _, _)
NextIndex(list, start, num, i) ==
    IF i >= num THEN i
    ELSE IF HasChapter(list, start + i) THEN NextIndex(list, start, num, i + 1)
    ELSE i

\* the locals of a run: the loop index i, newTranslatedChapters (list), the
\* retries of callGeminiApi; and for inspection the list the run started
\* with (initial) and the records it has pushed (added)
NoRun == [start |-> 0, num |-> 0, i |-> 0, list |-> <<>>, retries |-> 0,
          initial |-> <<>>, added |-> <<>>]

\* the status line: the kind of message and the chapter number it names
Status(kind, n) == [kind |-> kind, chapter |-> n]
NoPending == [active |-> FALSE, list |-> <<>>, chapterNumber |-> 0, text |-> NoText]

\* the items App keeps under STORAGE_KEYS.GEMINI_API_KEY and
\* STORAGE_KEYS.TRANSLATED_CHAPTERS (an item that is absent reads as the
\* default value, "" and [])
SavedState(key, chapters) ==
    [wnt_gemini_api_key |-> key, wnt_translated_chapters |-> chapters]

\* the auto-save effects of lines 63-97, run after the render that follows a
\* handler: each item is what its state is then
AutoSave == localStorage' = SavedState(geminiApiKey', translatedChapters')

\* the key a user has
ApiKeys == {"AIza-KEY"}

\* the state of App after mounting, but for the API key and the chapters
FormInit ==
    /\ isTranslating = FALSE
    /\ translationProgress = 0
    /\ status = Status("", 0)
    /\ showFallbackInput = FALSE
    /\ fallbackChapterNumber = 0
    /\ fallbackText = NoText
    /\ fallbackType = "japanese"
    /\ editingChapter = 0
    /\ editText = NoText
    /\ selectedChapter = 0
    /\ pc = "idle"
    /\ run = NoRun
    /\ requests = <<>>
    /\ fbPending = NoPending
    /\ stopRequested = FALSE
    /\ budget = [runs |-> 0, gestures |-> 0]

StateInit ==
    /\ translatedChapters = <<>>
    /\ FormInit

\* App is mounted in a browser whose storage holds the key of an earlier
\* visit and no chapters: the useState initialisers load the items (lines
\* 41-51) and the effects save them again
AppInit ==
    /\ geminiApiKey \in ApiKeys
    /\ localStorage = SavedState(geminiApiKey, <<>>)
    /\ StateInit

\* App is mounted in a browser whose storage is empty
FirstVisitInit ==
    /\ geminiApiKey = ""
    /\ localStorage = SavedState("", <<>>)
    /\ StateInit

Gesture ==
    /\ budget.gestures < MaxGestures
    /\ budget' = [budget EXCEPT !.gestures = @ + 1]

fallbackVars == <<showFallbackInput, fallbackChapterNumber, fallbackText, fallbackType>>
editorVars == <<editingChapter, editText, selectedChapter>>

\* the end of handleTranslate after its loop: lines 187-189
RunCompletes(list) ==
    /\ translatedChapters' = Rendered(list)
    /\ status' = Status("allDone", 0)
    /\ isTranslating' = FALSE
    /\ pc' = "idle"
    /\ run' = NoRun
    /\ requests' = <<>>

\* the loop of handleTranslate goes on at index i: it skips the chapters that
\* exist and issues the request of the next one, or leaves the loop
ContinueLoop(r, i) ==
    LET j == NextIndex(r.list, r.start, r.num, i)
    IN IF j < r.num
       THEN /\ pc' = "call"
            /\ run' = [r EXCEPT !.i = j, !.retries = 0]
            /\ requests' = Append(requests, r.start + j)
            /\ status' = Status("translating", r.start + j)
            /\ UNCHANGED <<translatedChapters, isTranslating>>
       ELSE RunCompletes(r.list)

\* handleTranslate from the click up to its first await: lines 99-141
StartRun(start, num) ==
    /\ geminiApiKey # ""
    /\ pc = "idle"
    /\ ~isTranslating
    /\ budget.runs < MaxRuns
    /\ budget' = [budget EXCEPT !.runs = @ + 1]
    /\ translationProgress' = 0
    /\ LET r == [start |-> start, num |-> num, i |-> 0, list |-> translatedChapters,
                 retries |-> 0, initial |-> translatedChapters, added |-> <<>>]
           j == NextIndex(r.list, start, num, 0)
       IN IF j < num
          THEN /\ pc' = "call"
               /\ run' = [r EXCEPT !.i = j]
               /\ requests' = <<start + j>>
               /\ status' = Status("translating", start + j)
               /\ isTranslating' = TRUE
               /\ UNCHANGED translatedChapters
          ELSE RunCompletes(r.list)
    /\ UNCHANGED <<fallbackVars, editorVars, fbPending>>
    /\ UNCHANGED geminiApiKey
    /\ AutoSave
    /\ UNCHANGED <<retryVars, glosVars, textVars, bookVars, collVars>>

\* the Translate button
HandleTranslate(start, num) ==
    /\ StartRun(start, num)
    /\ UNCHANGED stopRequested

\* the catch block storing the stale translatedChapters of the closure
\* instead of newTranslatedChapters
RunFails_StoresStaleList(r, chapterNumber, error) ==
    /\ translatedChapters' = Rendered(r.initial)
    /\ fallbackChapterNumber' = chapterNumber
    /\ IF error.message = MsgWithoutMarkers /\ error.fullText # <<>>
       THEN /\ fallbackText' = error.fullText
            /\ fallbackType' = "english"
       ELSE /\ fallbackText' = NoText
            /\ fallbackType' = fallbackType
    /\ status' = IF error.message = MsgWithoutMarkers /\ error.fullText # <<>>
                  THEN Status("markersMissing", chapterNumber)
                  ELSE IF Len(r.list) > 0 THEN Status("stopped", chapterNumber)
                  ELSE Status("failed", chapterNumber)
    /\ showFallbackInput' = TRUE
    /\ isTranslating' = FALSE
    /\ translationProgress' = RoundPercent(Len(r.list), r.num)
    /\ pc' = "idle"
    /\ run' = NoRun
    /\ requests' = <<>>

\* the catch block without its setIsTranslating(false)
RunFails_KeepsTranslating(r, chapterNumber, error) ==
    /\ translatedChapters' = Rendered(r.list)
    /\ fallbackChapterNumber' = chapterNumber
    /\ fallbackText' = NoText
    /\ fallbackType' = fallbackType
    /\ status' = Status("stopped", chapterNumber)
    /\ showFallbackInput' = TRUE
    /\ isTranslating' = isTranslating
    /\ translationProgress' = RoundPercent(Len(r.list), r.num)
    /\ pc' = "idle"
    /\ run' = NoRun
    /\ requests' = <<>>

\* the catch block accepting the raw text of a markers-missing error as the
\* chapter
RunFails_AutoAccepts(r, chapterNumber, error) ==
    /\ translatedChapters' =
           IF error.message = MsgWithoutMarkers /\ error.fullText # <<>>
           THEN Rendered(Append(r.list, Chapter(chapterNumber, error.fullText)))
           ELSE Rendered(r.list)
    /\ fallbackChapterNumber' = chapterNumber
    /\ fallbackText' = NoText
    /\ fallbackType' = fallbackType
    /\ status' = Status("stopped", chapterNumber)
    /\ showFallbackInput' = TRUE
    /\ isTranslating' = FALSE
    /\ translationProgress' = RoundPercent(Len(r.list), r.num)
    /\ pc' = "idle"
    /\ run' = NoRun
    /\ requests' = <<>>

\* the catch block of handleTranslate: lines 146-180
RunFails(r, chapterNumber, error) ==
    /\ translatedChapters' = Rendered(r.list)
    /\ fallbackChapterNumber' = chapterNumber
    /\ IF error.message = MsgWithoutMarkers /\ error.fullText # <<>>
       THEN /\ fallbackText' = error.fullText
            /\ fallbackType' = "english"
       ELSE /\ fallbackText' = NoText
            /\ fallbackType' = fallbackType
    /\ status' = IF error.message = MsgWithoutMarkers /\ error.fullText # <<>>
                  THEN Status("markersMissing", chapterNumber)
                  ELSE IF Len(r.list) > 0 THEN Status("stopped", chapterNumber)
                  ELSE Status("failed", chapterNumber)
    /\ showFallbackInput' = TRUE
    /\ isTranslating' = FALSE
    /\ translationProgress' = RoundPercent(Len(r.list), r.num)
    /\ pc' = "idle"
    /\ run' = NoRun
    /\ requests' = <<>>

\* the loop body without newTranslatedChapters.push
ChapterTranslated_NoPush(r, chapterNumber, text) ==
    LET pushed == r
    IN /\ translationProgress' = RoundPercent(r.i + 1, r.num)
       /\ IF r.i < r.num - 1
          THEN /\ pc' = "delay"
               /\ run' = pushed
               /\ UNCHANGED <<translatedChapters, isTranslating, requests, status>>
          ELSE RunCompletes(pushed.list)
       /\ UNCHANGED fallbackVars

\* the request in flight ends and translatedText is pushed: lines 142-144, 181-184
ChapterTranslated(r, chapterNumber, text) ==
    LET pushed == [r EXCEPT !.list = Append(r.list, Chapter(chapterNumber, text)),
                            !.added = Append(r.added, Chapter(chapterNumber, text))]
    IN /\ translationProgress' = RoundPercent(r.i + 1, r.num)
       /\ IF r.i < r.num - 1
          THEN /\ pc' = "delay"
               /\ run' = pushed
               /\ UNCHANGED <<translatedChapters, isTranslating, requests, status>>
          ELSE RunCompletes(pushed.list)
       /\ UNCHANGED fallbackVars

\* one attempt of callGeminiApi ends
AttemptReply(api) ==
    /\ pc = "call"
    /\ LET chapterNumber == run.start + run.i
           step == callGeminiApiStep(run.retries, AppTranslateSingleChapter(api))
       IN IF step.act = "retry"
          THEN /\ run' = [run EXCEPT !.retries = step.retries]
               /\ requests' = Append(requests, chapterNumber)
               /\ UNCHANGED <<pc, translatedChapters, isTranslating, translationProgress,
                              status, fallbackVars>>
          ELSE IF step.act = "return"
          THEN ChapterTranslated(run, chapterNumber, step.out.text)
          ELSE RunFails(run, chapterNumber, step.out)
    /\ UNCHANGED <<editorVars, fbPending, stopRequested>>
    /\ UNCHANGED budget
    /\ UNCHANGED geminiApiKey
    /\ AutoSave
    /\ UNCHANGED <<retryVars, glosVars, textVars, bookVars, collVars>>

\* the 3-second delay between two chapters is over
DelayElapsed ==
    /\ pc = "delay"
    /\ ContinueLoop(run, run.i + 1)
    /\ UNCHANGED <<translationProgress, fallbackVars, editorVars, fbPending, stopRequested>>
    /\ UNCHANGED budget
    /\ UNCHANGED geminiApiKey
    /\ AutoSave
    /\ UNCHANGED <<retryVars, glosVars, textVars, bookVars, collVars>>

(***************************************************************************)
(* The user's handlers.  A control can be used when it is rendered and not *)
(* disabled; the chapter controls are rendered while the list is not empty.*)
(***************************************************************************)
ListShown == translatedChapters # <<>>

\* handleFallbackSubmit with fallbackType 'english': lines 199-207
FallbackSubmitEnglish ==
    /\ showFallbackInput
    /\ Trim(fallbackText) # <<>>
    /\ fallbackType = "english"
    /\ Len(translatedChapters) < MaxListLength
    /\ translatedChapters' =
           Rendered(Append(translatedChapters,
                           Chapter(fallbackChapterNumber, Trim(fallbackText))))
    /\ showFallbackInput' = FALSE
    /\ fallbackText' = NoText
    /\ status' = Status("addedManually", fallbackChapterNumber)
    /\ UNCHANGED <<fallbackChapterNumber, fallbackType, isTranslating, translationProgress,
                   editorVars, runVars>>
    /\ Gesture
    /\ UNCHANGED geminiApiKey
    /\ AutoSave
    /\ UNCHANGED <<retryVars, glosVars, textVars, bookVars, collVars>>

\* handleFallbackSubmit with fallbackType 'japanese' up to its await: the
\* closure keeps the list and the chapter number of the render it was made in
FallbackSubmitJapanese ==
    /\ showFallbackInput
    /\ Trim(fallbackText) # <<>>
    /\ fallbackType = "japanese"
    /\ ~fbPending.active
    /\ Len(translatedChapters) < MaxListLength
    /\ fbPending' = [active |-> TRUE, list |-> translatedChapters,
                     chapterNumber |-> fallbackChapterNumber, text |-> fallbackText]
    /\ status' = Status("translatingManual", fallbackChapterNumber)
    /\ UNCHANGED <<translatedChapters, isTranslating, translationProgress, fallbackVars,
                   editorVars, pc, run, requests, stopRequested>>
    /\ Gesture
    /\ UNCHANGED geminiApiKey
    /\ AutoSave
    /\ UNCHANGED <<retryVars, glosVars, textVars, bookVars, collVars>>

\* lines 261-270: the text between the first '{{start}}' and the last '{{end}}'
\* (case-sensitive), or the whole reply
DirectExtract(fullText) ==
    LET hitsS == {i \in 1..Len(fullText) : fullText[i] = "{{start}}"}
        hitsE == {i \in 1..Len(fullText) : fullText[i] = "{{end}}"}
        startIndex == IF hitsS = {} THEN 0 ELSE CHOOSE i \in hitsS : \A j \in hitsS : i <= j
        endIndex == IF hitsE = {} THEN 0 ELSE CHOOSE i \in hitsE : \A j \in hitsE : i >= j
    IN IF startIndex # 0 /\ endIndex # 0 /\ endIndex > startIndex
       THEN Trim(SubSeq(fullText, startIndex + 1, endIndex - 1))
       ELSE fullText

\* the completion call of handleFallbackSubmit ends: lines 253-283
FallbackReply(api) ==
    /\ fbPending.active
    /\ fbPending' = NoPending
    /\ IF api.kind = "fault"
       THEN /\ status' = Status("manualError", fbPending.chapterNumber)
            /\ UNCHANGED <<translatedChapters, showFallbackInput, fallbackText>>
       ELSE /\ status' = Status("translatedManually", fbPending.chapterNumber)
            /\ translatedChapters' =
                   Rendered(Append(fbPending.list,
                                   Chapter(fbPending.chapterNumber, DirectExtract(api.text))))
            /\ showFallbackInput' = FALSE
            /\ fallbackText' = NoText
    /\ UNCHANGED <<fallbackChapterNumber, fallbackType, isTranslating, translationProgress,
                   editorVars, pc, run, requests, stopRequested>>
    /\ UNCHANGED budget
    /\ UNCHANGED geminiApiKey
    /\ AutoSave
    /\ UNCHANGED <<retryVars, glosVars, textVars, bookVars, collVars>>

\* typing into the manual input
SetFallbackText(text) ==
    /\ showFallbackInput
    /\ fallbackText # text
    /\ fallbackText' = text
    /\ UNCHANGED status
    /\ UNCHANGED <<translatedChapters, isTranslating, translationProgress, showFallbackInput,
                   fallbackChapterNumber, fallbackType, editorVars, runVars>>
    /\ Gesture
    /\ UNCHANGED geminiApiKey
    /\ AutoSave
    /\ UNCHANGED <<retryVars, glosVars, textVars, bookVars, collVars>>

\* the radio buttons of the manual input
SetFallbackType(type) ==
    /\ showFallbackInput
    /\ fallbackType # type
    /\ fallbackType' = type
    /\ UNCHANGED status
    /\ UNCHANGED <<translatedChapters, isTranslating, translationProgress, showFallbackInput,
                   fallbackChapterNumber, fallbackText, editorVars, runVars>>
    /\ Gesture
    /\ UNCHANGED geminiApiKey
    /\ AutoSave
    /\ UNCHANGED <<retryVars, glosVars, textVars, bookVars, collVars>>

\* the Cancel button of the manual input
CancelFallback ==
    /\ showFallbackInput
    /\ showFallbackInput' = FALSE
    /\ UNCHANGED status
    /\ UNCHANGED <<translatedChapters, isTranslating, translationProgress,
                   fallbackChapterNumber, fallbackText, fallbackType, editorVars, runVars>>
    /\ Gesture
    /\ UNCHANGED geminiApiKey
    /\ AutoSave
    /\ UNCHANGED <<retryVars, glosVars, textVars, bookVars, collVars>>

\* the View button and the chapter selector; 0 is the empty option
SelectChapter(n) ==
    /\ ListShown
    /\ n = 0 \/ HasChapter(translatedChapters, n)
    /\ selectedChapter # n
    /\ selectedChapter' = n
    /\ UNCHANGED status
    /\ UNCHANGED <<translatedChapters, isTranslating, translationProgress, fallbackVars,
                   editingChapter, editText, runVars>>
    /\ Gesture
    /\ UNCHANGED geminiApiKey
    /\ AutoSave
    /\ UNCHANGED <<retryVars, glosVars, textVars, bookVars, collVars>>

\* the Edit Chapter button of the selected chapter: lines 287-293
HandleEditChapter ==
    /\ ListShown
    /\ selectedChapter # 0
    /\ editingChapter = 0
    /\ HasChapter(translatedChapters, selectedChapter)
    /\ LET k == CHOOSE k \in 1..Len(translatedChapters) :
                  /\ translatedChapters[k].chapterNumber = selectedChapter
                  /\ \A m \in 1..(k - 1) :
                         translatedChapters[m].chapterNumber # selectedChapter
       IN /\ editingChapter' = selectedChapter
          /\ editText' = translatedChapters[k].translatedText
    /\ UNCHANGED status
    /\ UNCHANGED <<translatedChapters, isTranslating, translationProgress, fallbackVars,
                   selectedChapter, runVars>>
    /\ Gesture
    /\ UNCHANGED geminiApiKey
    /\ AutoSave
    /\ UNCHANGED <<retryVars, glosVars, textVars, bookVars, collVars>>

\* the editor is rendered for the selected chapter while it is being edited
EditorShown == ListShown /\ selectedChapter # 0 /\ editingChapter = selectedChapter

\* typing into the chapter editor
SetEditText(text) ==
    /\ EditorShown
    /\ editText # text
    /\ editText' = text
    /\ UNCHANGED status
    /\ UNCHANGED <<translatedChapters, isTranslating, translationProgress, fallbackVars,
                   editingChapter, selectedChapter, runVars>>
    /\ Gesture
    /\ UNCHANGED geminiApiKey
    /\ AutoSave
    /\ UNCHANGED <<retryVars, glosVars, textVars, bookVars, collVars>>

\* Save Changes: lines 295-307
HandleSaveEdit ==
    /\ EditorShown
    /\ editingChapter # 0
    /\ translatedChapters' =
           Rendered([k \in 1..Len(translatedChapters) |->
                        IF translatedChapters[k].chapterNumber = editingChapter
                        THEN [translatedChapters[k] EXCEPT !.translatedText = editText]
                        ELSE translatedChapters[k]])
    /\ editingChapter' = 0
    /\ editText' = NoText
    /\ status' = Status("updated", editingChapter)
    /\ UNCHANGED <<isTranslating, translationProgress, fallbackVars, selectedChapter, runVars>>
    /\ Gesture
    /\ UNCHANGED geminiApiKey
    /\ AutoSave
    /\ UNCHANGED <<retryVars, glosVars, textVars, bookVars, collVars>>

\* Cancel of the editor: lines 309-312
HandleCancelEdit ==
    /\ EditorShown
    /\ editingChapter' = 0
    /\ editText' = NoText
    /\ UNCHANGED status
    /\ UNCHANGED <<translatedChapters, isTranslating, translationProgress, fallbackVars,
                   selectedChapter, runVars>>
    /\ Gesture
    /\ UNCHANGED geminiApiKey
    /\ AutoSave
    /\ UNCHANGED <<retryVars, glosVars, textVars, bookVars, collVars>>

\* Array.prototype.filter(ch => ch.chapterNumber !== n)
RECURSIVE WithoutChapter(_, _)
WithoutChapter(list, n) ==
    IF list = <<>> THEN <<>>
    ELSE IF Head(list).chapterNumber = n THEN WithoutChapter(Tail(list), n)
    ELSE <<Head(list)>> \o WithoutChapter(Tail(list), n)

\* the Delete button of a chapter, confirmed: lines 315-327
HandleDeleteChapter(n) ==
    /\ ListShown
    /\ HasChapter(translatedChapters, n)
    /\ translatedChapters' = Rendered(WithoutChapter(translatedChapters, n))
    /\ selectedChapter' = IF selectedChapter = n THEN 0 ELSE selectedChapter
    /\ status' = Status("deleted", n)
    /\ UNCHANGED <<isTranslating, translationProgress, fallbackVars, editingChapter, editText,
                   runVars>>
    /\ Gesture
    /\ UNCHANGED geminiApiKey
    /\ AutoSave
    /\ UNCHANGED <<retryVars, glosVars, textVars, bookVars, collVars>>

\* Clear All Data, confirmed: lines 330-364
HandleClearAllData ==
    /\ ~isTranslating
    /\ translatedChapters' = <<>>
    /\ selectedChapter' = 0
    /\ showFallbackInput' = FALSE
    /\ fallbackText' = NoText
    /\ fallbackType' = "japanese"
    /\ editingChapter' = 0
    /\ editText' = NoText
    /\ status' = Status("cleared", 0)
    /\ UNCHANGED <<isTranslating, translationProgress, fallbackChapterNumber, runVars>>
    /\ Gesture
    /\ geminiApiKey' = ""
    /\ AutoSave
    /\ UNCHANGED <<retryVars, glosVars, textVars, bookVars, collVars>>

\* the Translate button while the API key field is empty: lines 100-103
HandleTranslateWithoutKey ==
    /\ geminiApiKey = ""
    /\ ~isTranslating
    /\ status' = Status("enterApiKey", 0)
    /\ UNCHANGED <<translatedChapters, isTranslating, translationProgress, fallbackVars,
                   editorVars, runVars>>
    /\ Gesture
    /\ UNCHANGED geminiApiKey
    /\ AutoSave
    /\ UNCHANGED <<retryVars, glosVars, textVars, bookVars, collVars>>

\* the API key field: onChange, line 756
SetGeminiApiKey(key) ==
    /\ geminiApiKey' = key
    /\ geminiApiKey' # geminiApiKey
    /\ UNCHANGED <<stateVars, runVars, budget>>
    /\ AutoSave
    /\ UNCHANGED <<retryVars, glosVars, textVars, bookVars, collVars>>

\* entering the key, translating, editing and clearing
NextStorage ==
    \/ \E key \in ApiKeys \cup {""} : SetGeminiApiKey(key)
    \/ HandleTranslateWithoutKey
    \/ \E start \in 1..MaxStartChapter, num \in 0..MaxNumChapters : HandleTranslate(start, num)
    \/ \E api \in RunBehaviours : AttemptReply(api)
    \/ DelayElapsed
    \/ \E n \in {0} \cup (1..(MaxStartChapter + MaxNumChapters - 1)) : SelectChapter(n)
    \/ HandleEditChapter
    \/ \E text \in EditInputs : SetEditText(text)
    \/ HandleSaveEdit
    \/ HandleClearAllData

\* the runs alone: the user only clicks Translate
NextRuns ==
    \/ \E start \in 1..MaxStartChapter, num \in 0..MaxNumChapters : HandleTranslate(start, num)
    \/ \E api \in RunBehaviours : AttemptReply(api)
    \/ DelayElapsed

UserChapters == 1..(MaxStartChapter + MaxNumChapters - 1)

NextTranslate ==
    \/ \E start \in 1..MaxStartChapter, num \in 0..MaxNumChapters : HandleTranslate(start, num)
    \/ \E api \in RunBehaviours : AttemptReply(api)
    \/ DelayElapsed
    \/ FallbackSubmitEnglish
    \/ FallbackSubmitJapanese
    \/ \E api \in FallbackBehaviours : FallbackReply(api)
    \/ \E text \in FallbackInputs : SetFallbackText(text)
    \/ \E type \in {"japanese", "english"} : SetFallbackType(type)
    \/ CancelFallback
    \/ \E n \in {0} \cup UserChapters : SelectChapter(n)
    \/ HandleEditChapter
    \/ \E text \in EditInputs : SetEditText(text)
    \/ HandleSaveEdit
    \/ HandleCancelEdit
    \/ \E n \in UserChapters : HandleDeleteChapter(n)
    \/ HandleClearAllData
    \/ HandleTranslateWithoutKey


(***************************************************************************)
(* Cancellation.  TranslationForm renders the Stop Translation button      *)
(* while isTranslating and calls onStopTranslation; the handler and the    *)
(* place where the loop reads the flag follow the specification: the flag  *)
(* is cleared when a run starts, set by the button, and read by the loop   *)
(* between two chapters, before the next request is issued.                *)
(***************************************************************************)
\* the Stop Translation button
StopTranslation ==
    /\ isTranslating
    /\ ~stopRequested
    /\ stopRequested' = TRUE
    /\ UNCHANGED <<stateVars, pc, run, requests, fbPending, budget>>
    /\ UNCHANGED geminiApiKey
    /\ AutoSave
    /\ UNCHANGED <<retryVars, glosVars, textVars, bookVars, collVars>>

\* the Translate button of the stoppable run: the flag is cleared
HandleTranslateStoppable(start, num) ==
    /\ StartRun(start, num)
    /\ stopRequested' = FALSE

\* between two chapters the loop reads the flag, finds it set and halts: the
\* chapters completed so far are stored
StopObserved ==
    /\ pc = "delay"
    /\ stopRequested
    /\ translatedChapters' = Rendered(run.list)
    /\ status' = Status("stoppedByUser", run.start + run.i + 1)
    /\ isTranslating' = FALSE
    /\ pc' = "idle"
    /\ run' = NoRun
    /\ requests' = <<>>
    /\ UNCHANGED <<translationProgress, fallbackVars, editorVars, fbPending, stopRequested>>
    /\ UNCHANGED budget
    /\ UNCHANGED geminiApiKey
    /\ AutoSave
    /\ UNCHANGED <<retryVars, glosVars, textVars, bookVars, collVars>>

\* between two chapters the loop reads the flag, finds it clear and goes on
StopNotRequested ==
    /\ ~stopRequested
    /\ DelayElapsed

NextStop ==
    \/ \E start \in 1..MaxStartChapter, num \in 0..MaxNumChapters :
           HandleTranslateStoppable(start, num)
    \/ \E api \in RunBehaviours : AttemptReply(api)
    \/ StopTranslation
    \/ StopObserved
    \/ StopNotRequested

(***************************************************************************)
(* glossaryService.ts: generateGlossarySegments.  A character of a segment *)
(* is identified by the segment it was extracted for and its position in   *)
(* the reply; the context payload of a request is the sequence of the      *)
(* characters that generateSegmentPrompt puts into the prompt.             *)
(***************************************************************************)
MaxUrls == 25
MaxRangeStart == 2

\* const segmentSize = 10
segmentSize == 10
\* const maxRetries = 3 of the rate-limit loop
GlossaryMaxRetries == 3
\* allPreviousCharacters.slice(0, 30)
ContextLimit == 30

Models == {"gemini-2.5-flash", "gemini-2.5-pro"}

\* numbers of characters a parseable reply may hold
CharacterCounts == {1, 16}

\* a reply of the completion service to a segment request.  What the text is
\* decides what the two parsing strategies of parseGlossaryResponse do:
\*   primary   JSON.parse of the repaired text and the mapping of its
\*             characters: "ok" (an object with `count` characters),
\*             "no_array" (an object without characters array),
\*             "syntax_error" (JSON.parse throws), "type_error" (an entry of
\*             the array is null, so reading its fields throws)
\*   fallback  the characters-array strategy on the raw text: "no_match" (no
\*             "characters": [ in the text), "ok" (one character),
\*             "syntax_error" (JSON.parse throws), "type_error" (a
\*             description that is not a string, so .replace throws)
GlossaryReply(blank, primary, fallback, count) ==
    [kind |-> "reply", message |-> <<>>, blank |-> blank, primary |-> primary,
     fallback |-> fallback, count |-> count]
GlossaryFault(message) ==
    [kind |-> "fault", message |-> message, blank |-> FALSE, primary |-> "syntax_error",
     fallback |-> "no_match", count |-> 0]

GlossaryReplies ==
    {GlossaryReply(TRUE, "syntax_error", "no_match", 0),
     GlossaryReply(FALSE, "no_array", "no_match", 0)}
    \cup {GlossaryReply(FALSE, "ok", "no_match", c) : c \in CharacterCounts}
    \cup {GlossaryReply(FALSE, primary, fallback, 0) :
              primary \in {"syntax_error", "type_error"},
              fallback \in {"no_match", "ok", "syntax_error", "type_error"}}

GlossaryBehaviours ==
    {GlossaryFault(<<"429", "Too Many Requests">>), GlossaryFault(<<"fetch failed">>)}
    \cup GlossaryReplies

\* Math.ceil(a / b)
CeilDiv(a, b) == (a + b - 1) \div b

RECURSIVE Pow2(_)
Pow2(k) == IF k = 0 THEN 1 ELSE 2 * Pow2(k - 1)

\* a catch clause that takes every error for a rate-limit error
IsRateLimit_AnyError(message) == TRUE

\* error.message?.includes('429') || includes('quota') || includes('rate')
IsRateLimit(message) ==
    Includes(message, "429") \/ Includes(message, "quota") \/ Includes(message, "rate")

\* how a block of parseGlossaryResponse ends: it returns a glossary, it
\* returns null, it throws, or it runs to its end without returning
ReturnGlossary(strategy, characters) ==
    [kind |-> "glossary", strategy |-> strategy, characters |-> characters]
ReturnNull == [kind |-> "null", strategy |-> "none", characters |-> <<>>]
Raise(error) == [kind |-> "throw", strategy |-> error, characters |-> <<>>]
FallsThrough == [kind |-> "end", strategy |-> "none", characters |-> <<>>]

\* lines 264-337: the body of the outer try block
PrimaryStrategy(reply, segmentNumber) ==
    CASE reply.primary = "syntax_error" -> Raise("SyntaxError")
      [] reply.primary = "no_array" -> ReturnNull
      [] reply.primary = "type_error" -> Raise("TypeError")
      [] OTHER ->
           ReturnGlossary("primary",
               [i \in 1..reply.count |-> [segment |-> segmentNumber, index |-> i]])

\* lines 346-412: the body of the inner try block
FallbackStrategy(reply, segmentNumber) ==
    CASE reply.fallback = "no_match" -> FallsThrough
      [] reply.fallback = "syntax_error" -> Raise("SyntaxError")
      [] reply.fallback = "type_error" -> Raise("TypeError")
      [] OTHER -> ReturnGlossary("fallback", <<[segment |-> segmentNumber, index |-> 1]>>)

\* parseGlossaryResponse with an inner try block that has no catch clause
parseGlossaryResponse_NoInnerCatch(reply, segmentNumber) ==
    LET primary == PrimaryStrategy(reply, segmentNumber)
        fallback == FallbackStrategy(reply, segmentNumber)
    IN IF primary.kind # "throw" THEN primary
       ELSE IF fallback.kind = "end" THEN ReturnNull
       ELSE fallback

\* parseGlossaryResponse: what the outer try block returns; when it throws,
\* what the inner try block of the catch clause returns; when that throws
\* or returns nothing, null (lines 413-419)
parseGlossaryResponse(reply, segmentNumber) ==
    LET primary == PrimaryStrategy(reply, segmentNumber)
        fallback == FallbackStrategy(reply, segmentNumber)
    IN IF primary.kind # "throw" THEN primary
       ELSE IF fallback.kind = "glossary" THEN fallback
       ELSE ReturnNull

\* previousSegments.flatMap(segment => segment.characters.map(...))
RECURSIVE FlatMapCharacters(_)
FlatMapCharacters(previousSegments) ==
    IF previousSegments = <<>> THEN <<>>
    ELSE Head(previousSegments).characters \o FlatMapCharacters(Tail(previousSegments))

\* generateSegmentPrompt taking the characters of the immediately preceding
\* segment only
generateSegmentPrompt_LastOnly(previousSegments) ==
    LET allPreviousCharacters ==
            IF previousSegments = <<>> THEN <<>>
            ELSE previousSegments[Len(previousSegments)].characters
    IN SubSeq(allPreviousCharacters, 1, Min(ContextLimit, Len(allPreviousCharacters)))

\* generateSegmentPrompt: the characters listed under "Previous characters"
generateSegmentPrompt(previousSegments) ==
    LET allPreviousCharacters == FlatMapCharacters(previousSegments)
    IN SubSeq(allPreviousCharacters, 1, Min(ContextLimit, Len(allPreviousCharacters)))

totalSegments == CeilDiv(gopts.n, segmentSize)

\* lines 440-447: the chapter range of the segment at segmentIndex
SegmentRange(index) ==
    LET startIdx == index * segmentSize
        endIdx == Min(startIdx + segmentSize, gopts.n)
    IN [start |-> gopts.start + startIdx, end |-> gopts.start + endIdx - 1]

\* the completion request of the segment at `index`, as it is sent
SegmentRequest(index, built, waited) ==
    [segmentNumber |-> index + 1,
     chapterRange |-> SegmentRange(index),
     urls |-> Min(index * segmentSize + segmentSize, gopts.n) - index * segmentSize,
     context |-> generateSegmentPrompt(built),
     waited |-> waited]

NoGlossaryResult == [done |-> FALSE, success |-> FALSE, segments |-> <<>>,
                     lastProcessedChapter |-> 0, error |-> <<>>]

\* parseGlossaryResponse has not been called yet
NoParse == [called |-> FALSE, segmentNumber |-> 0,
            reply |-> GlossaryFault(<<>>), outcome |-> ReturnNull]

GlosParked ==
    /\ gpc = "parked"
    /\ gopts = [n |-> 0, start |-> 0, model |-> ""]
    /\ segmentIndex = 0
    /\ retryCount = 0
    /\ segments = <<>>
    /\ greqs = <<>>
    /\ gdelays = <<>>
    /\ gresult = NoGlossaryResult
    /\ glast = NoParse

GlosInit ==
    /\ gpc = "start"
    /\ gopts \in [n : 0..MaxUrls, start : 1..MaxRangeStart, model : Models]
    /\ segmentIndex = 0
    /\ retryCount = 0
    /\ segments = <<>>
    /\ greqs = <<>>
    /\ gdelays = <<>>
    /\ gresult = NoGlossaryResult
    /\ glast = NoParse

\* the value returned after the loop, with lastProcessedChapter taken from
\* the requested range
GlossaryReturns_RequestedRange(built) ==
    /\ gpc' = "done"
    /\ gresult' =
         IF built = <<>>
         THEN [NoGlossaryResult EXCEPT !.done = TRUE,
                                       !.error = <<"No segments were successfully generated">>]
         ELSE [NoGlossaryResult EXCEPT !.done = TRUE, !.success = TRUE, !.segments = built,
                    !.lastProcessedChapter = gopts.start + gopts.n - 1]

\* lines 552-574: the value returned after the loop
GlossaryReturns(built) ==
    /\ gpc' = "done"
    /\ gresult' =
         IF built = <<>>
         THEN [NoGlossaryResult EXCEPT !.done = TRUE,
                                       !.error = <<"No segments were successfully generated">>]
         ELSE [NoGlossaryResult EXCEPT !.done = TRUE, !.success = TRUE, !.segments = built,
                    !.lastProcessedChapter = gopts.start + Len(built) * segmentSize - 1]

\* lines 576-582: the catch block around the loop
GlossaryAborts(message) ==
    /\ gpc' = "done"
    /\ gresult' = [NoGlossaryResult EXCEPT !.done = TRUE, !.error = message]
    /\ UNCHANGED <<segmentIndex, retryCount, segments, greqs>>

\* the for loop goes on at `index` with the segments `built`, after an
\* inter-segment delay of `waited` seconds (0: no delay was taken)
NextSegment(index, built, waited) ==
    /\ segments' = built
    /\ IF index < totalSegments
       THEN /\ gpc' = "call"
            /\ segmentIndex' = index
            /\ retryCount' = 0
            /\ greqs' = Append(greqs, SegmentRequest(index, built, waited))
            /\ UNCHANGED gresult
       ELSE /\ GlossaryReturns(built)
            /\ UNCHANGED <<segmentIndex, retryCount, greqs>>

\* generateGlossarySegments is called
GlossaryStart ==
    /\ gpc = "start"
    /\ NextSegment(0, <<>>, 0)
    /\ UNCHANGED <<gopts, gdelays, glast>>
    /\ UNCHANGED <<retryVars, appVars, textVars, bookVars, collVars>>

\* lines 544-549: the delay taken after a segment that is not the last one
InterSegmentDelay ==
    IF segmentIndex < totalSegments - 1
    THEN (IF gopts.model = "gemini-2.5-pro" THEN 35 ELSE 8)
    ELSE 0

\* the completion call of the segment in flight ends: lines 480-550
SegmentCallEnds(api) ==
    /\ gpc = "call"
    /\ LET segmentNumber == segmentIndex + 1
           parsed == parseGlossaryResponse(api, segmentNumber)
           segment == [segmentNumber |-> segmentNumber,
                       chapterRange |-> SegmentRange(segmentIndex),
                       characters |-> parsed.characters]
       IN IF api.kind = "fault"
          THEN IF IsRateLimit(api.message) /\ retryCount + 1 <= GlossaryMaxRetries
               THEN /\ retryCount' = retryCount + 1
                    /\ gdelays' = Append(gdelays, Min(60, 15 * Pow2(retryCount)))
                    /\ greqs' = Append(greqs, SegmentRequest(segmentIndex, segments, 0))
                    /\ UNCHANGED <<gpc, segmentIndex, segments, gresult, glast>>
               ELSE /\ GlossaryAborts(api.message)
                    /\ UNCHANGED <<gdelays, glast>>
          ELSE IF api.blank
          THEN /\ NextSegment(segmentIndex + 1, segments, 0)
               /\ UNCHANGED <<gdelays, glast>>
          ELSE /\ glast' = [called |-> TRUE, segmentNumber |-> segmentNumber,
                            reply |-> api, outcome |-> parsed]
               /\ UNCHANGED gdelays
               /\ IF parsed.kind = "throw"
                  THEN GlossaryAborts(<<parsed.strategy>>)
                  ELSE IF parsed.kind = "glossary"
                  THEN NextSegment(segmentIndex + 1, Append(segments, segment),
                                   InterSegmentDelay)
                  ELSE NextSegment(segmentIndex + 1, segments, InterSegmentDelay)
    /\ UNCHANGED gopts
    /\ UNCHANGED <<retryVars, appVars, textVars, bookVars, collVars>>

NextGlossary ==
    \/ GlossaryStart
    \/ \E api \in GlossaryBehaviours : SegmentCallEnds(api)

(***************************************************************************)
(* One raw response through the extractor and through both translators.    *)
(***************************************************************************)
MaxTextLen == 4

\* the characters a raw response is made of: the character whose lower case
\* is longer than itself, a line break, a word, the chapter tag, the plain
\* word "chapter", two start and two end sentinel variants (one of them in
\* mixed case), and a long stretch of prose
TextAlphabet ==
    {"I_DOT", "\n", "Title", "[chapter: 1]", "chapter", "***TRANSLATION_START***",
     "{{start}}", "***Translation_End***", "{{end}}", "PROSE"}

RawTexts == UNION {[1..n -> TextAlphabet] : n \in 0..MaxTextLen}

NoOutcome == [extraction |-> [success |-> FALSE, text |-> NoText],
              storage |-> Fail(<<>>), app |-> Fail(<<>>)]

TextParked ==
    /\ raw = <<>>
    /\ tpc = "parked"
    /\ tout = NoOutcome

TextInit ==
    /\ raw \in RawTexts
    /\ tpc = "start"
    /\ tout = NoOutcome

\* the response text reaches extractTranslationText and, as the answer of
\* the Gemini call, both translateSingleChapter functions
ResponseArrives ==
    /\ tpc = "start"
    /\ tpc' = "done"
    /\ tout' = [extraction |-> extractTranslationText(raw),
                storage |-> translateSingleChapter(Reply(raw)),
                app |-> AppTranslateSingleChapter(Reply(raw))]
    /\ UNCHANGED raw
    /\ UNCHANGED <<retryVars, appVars, glosVars, bookVars, collVars>>

NextText == ResponseArrives

(***************************************************************************)
(* The book.  handleDownload of App.tsx hands the chapters to jEpub,       *)
(* generateAndDownloadEPUB of epubService.ts writes the files of the book  *)
(* itself.  A book is described by its pages, in reading order: for jEpub  *)
(* the chapters in the order of the epub.add calls, for epubService the    *)
(* entries of the spine, each with the content of the file it names.       *)
(***************************************************************************)
MaxBookLen == 3
MaxBookChapter == 2

BookTexts == {<<"First.">>, <<"Second.">>}
BookRecords == {Chapter(n, text) : n \in 1..MaxBookChapter, text \in BookTexts}
BookLists == UNION {[1..n -> BookRecords] : n \in 0..MaxBookLen}

NoEpub == [by |-> "none", chapters |-> <<>>, pages |-> <<>>]

\* files[`OEBPS/chapter${chapterNumber}.xhtml`] after the loop of lines
\* 378-402: the file written last under that name
RECURSIVE ChapterFile(_, _)
ChapterFile(sortedChapters, n) ==
    IF sortedChapters = <<>> THEN NoText
    ELSE IF sortedChapters[Len(sortedChapters)].chapterNumber = n
    THEN sortedChapters[Len(sortedChapters)].translatedText
    ELSE ChapterFile(SubSeq(sortedChapters, 1, Len(sortedChapters) - 1), n)

\* generateAndDownloadEPUB: one spine entry per record of the sorted copy,
\* each naming the file of its chapter number
generateAndDownloadEPUB(chapters) ==
    LET sortedChapters == SortChapters(chapters)
    IN [k \in 1..Len(sortedChapters) |->
           Chapter(sortedChapters[k].chapterNumber,
                   ChapterFile(sortedChapters, sortedChapters[k].chapterNumber))]

\* the records of `list` in every order
Orderings(list) ==
    {l \in [1..Len(list) -> {list[k] : k \in 1..Len(list)}] :
        \A x \in {list[k] : k \in 1..Len(list)} :
            Cardinality({k \in 1..Len(l) : l[k] = x})
                = Cardinality({k \in 1..Len(list) : list[k] = x})}

\* a caller hands the chapters of the list to generateAndDownloadEPUB, in
\* the order in which they were inserted
GenerateAndDownloadEPUB(chapters) ==
    /\ ~isTranslating
    /\ chapters \in Orderings(translatedChapters)
    /\ epub' = [by |-> "generateAndDownloadEPUB", chapters |-> chapters,
                pages |-> generateAndDownloadEPUB(chapters)]
    /\ UNCHANGED <<htext, hpc, hout>>
    /\ UNCHANGED <<retryVars, appVars, glosVars, textVars, collVars>>

\* the Download EPUB button: lines 655-743.  The list is sorted in place and
\* every record is added to the book
HandleDownload ==
    /\ translatedChapters # <<>>
    /\ ~isTranslating
    /\ translatedChapters' = SortChapters(translatedChapters)
    /\ epub' = [by |-> "handleDownload", chapters |-> translatedChapters,
                pages |-> translatedChapters']
    /\ status' = Status("epubDownloaded", 0)
    /\ UNCHANGED <<isTranslating, translationProgress, fallbackVars, editorVars, runVars,
                   budget, storeVars>>
    /\ UNCHANGED <<htext, hpc, hout>>
    /\ UNCHANGED <<retryVars, glosVars, textVars, collVars>>

NextDownload ==
    \/ HandleDownload
    \/ \E chapters \in BookLists : GenerateAndDownloadEPUB(chapters)

\* App holds a list of chapters, rendered
DownloadInit ==
    /\ geminiApiKey \in ApiKeys
    /\ translatedChapters \in {Rendered(list) : list \in BookLists}
    /\ localStorage = SavedState(geminiApiKey, translatedChapters)
    /\ FormInit

(***************************************************************************)
(* convertTextToHTML, of epubService.ts and of App.tsx.  A text is a       *)
(* sequence of characters; the markup is a sequence of blocks.             *)
(***************************************************************************)
MaxHtmlLen == 7

\* carriage return, line feed, asterisk, a letter, a double quote
HtmlAlphabet == {"\r", "\n", "*", "a", "\""}
HtmlTexts == UNION {[1..n -> HtmlAlphabet] : n \in 0..MaxHtmlLen}

SceneBreak == <<"*", "*", "*">>

\* the blocks of the markup
Placeholder == [tag |-> "p", source |-> <<>>, content |-> <<"No content available.">>]
CenteredMarker(p) == [tag |-> "div", source |-> p, content |-> SceneBreak]
ParagraphBlock(p, content) == [tag |-> "p", source |-> p, content |-> content]

\* replace(/\r\n/g, '\n')
RECURSIVE ReplaceCRLF(_)
ReplaceCRLF(s) ==
    IF s = <<>> THEN <<>>
    ELSE IF Len(s) >= 2 /\ s[1] = "\r" /\ s[2] = "\n"
    THEN <<"\n">> \o ReplaceCRLF(SubSeq(s, 3, Len(s)))
    ELSE <<Head(s)>> \o ReplaceCRLF(Tail(s))

\* replace(/\r/g, '\n')
ReplaceCR(s) == [k \in 1..Len(s) |-> IF s[k] = "\r" THEN "\n" ELSE s[k]]

\* split('\n')
RECURSIVE SplitLines(_)
SplitLines(s) ==
    IF \E i \in 1..Len(s) : s[i] = "\n"
    THEN LET i == CHOOSE i \in 1..Len(s) :
                      s[i] = "\n" /\ \A x \in 1..(i - 1) : s[x] # "\n"
         IN <<SubSeq(s, 1, i - 1)>> \o SplitLines(SubSeq(s, i + 1, Len(s)))
    ELSE <<s>>

\* split('\n\n')
RECURSIVE SplitParagraphs(_)
SplitParagraphs(s) ==
    LET breaks == {i \in 1..(Len(s) - 1) : s[i] = "\n" /\ s[i + 1] = "\n"}
    IN IF breaks # {}
       THEN LET i == CHOOSE i \in breaks : \A x \in breaks : i <= x
            IN <<SubSeq(s, 1, i - 1)>> \o SplitParagraphs(SubSeq(s, i + 2, Len(s)))
       ELSE <<s>>

\* replace(/\n/g, '<br>\n')
RECURSIVE BreakLines(_)
BreakLines(s) ==
    IF s = <<>> THEN <<>>
    ELSE (IF Head(s) = "\n" THEN <<"<br>", "\n">> ELSE <<Head(s)>>) \o BreakLines(Tail(s))

\* the position of the first asterisk of s after position 1, or 0
NextAsterisk(s) ==
    IF \E j \in 2..Len(s) : s[j] = "*"
    THEN CHOOSE j \in 2..Len(s) : s[j] = "*" /\ \A x \in 2..(j - 1) : s[x] # "*"
    ELSE 0

\* epubService.ts: replace(/\*([^*]+)\*/g, '<em>$1</em>')
RECURSIVE Emphasis(_)
Emphasis(s) ==
    IF s = <<>> THEN <<>>
    ELSE IF Head(s) = "*" /\ NextAsterisk(s) > 2
    THEN <<"<em>">> \o SubSeq(s, 2, NextAsterisk(s) - 1) \o <<"</em>">>
             \o Emphasis(SubSeq(s, NextAsterisk(s) + 1, Len(s)))
    ELSE <<Head(s)>> \o Emphasis(Tail(s))

\* App.tsx: replace(/\*(.*?)\*/g, '<em>$1</em>')
RECURSIVE AppEmphasis(_)
AppEmphasis(s) ==
    IF s = <<>> THEN <<>>
    ELSE IF /\ Head(s) = "*"
            /\ NextAsterisk(s) # 0
            /\ \A x \in 2..(NextAsterisk(s) - 1) : s[x] \notin {"\n", "\r"}
    THEN <<"<em>">> \o SubSeq(s, 2, NextAsterisk(s) - 1) \o <<"</em>">>
             \o AppEmphasis(SubSeq(s, NextAsterisk(s) + 1, Len(s)))
    ELSE <<Head(s)>> \o AppEmphasis(Tail(s))

\* epubService.ts lines 88-109: the lines are grouped into paragraphs; a
\* line that starts with a double quote, a scene break, and the first line
\* start a new paragraph
RECURSIVE GroupLines(_, _, _, _)
GroupLines(lines, k, paragraphs, currentParagraph) ==
    LET pushed == IF currentParagraph # <<>> THEN Append(paragraphs, currentParagraph)
                  ELSE paragraphs
    IN IF k > Len(lines) THEN pushed
       ELSE IF Trim(lines[k]) = <<>> THEN GroupLines(lines, k + 1, paragraphs, currentParagraph)
       ELSE IF \/ Head(Trim(lines[k])) = "\""
               \/ Trim(lines[k]) = SceneBreak
               \/ currentParagraph = <<>>
       THEN GroupLines(lines, k + 1, pushed, lines[k])
       ELSE GroupLines(lines, k + 1, paragraphs, currentParagraph \o <<"\n">> \o lines[k])

\* epubService.ts line 117: p === '***' || p === '* * *' || p.match(/^[*\-=]{3,}$/)
IsSceneBreak(p) ==
    \/ p = SceneBreak
    \/ p = <<"*", " ", "*", " ", "*">>
    \/ Len(p) >= 3 /\ \A x \in 1..Len(p) : p[x] \in {"*", "-", "="}

\* epubService.ts lines 112-130, for the paragraphs from index k on
RECURSIVE HtmlParagraphs(_, _)
HtmlParagraphs(paragraphs, k) ==
    IF k > Len(paragraphs) THEN <<>>
    ELSE LET p == Trim(paragraphs[k])
         IN (IF p = <<>> THEN <<>>
             ELSE IF IsSceneBreak(p) THEN <<CenteredMarker(p)>>
             ELSE <<ParagraphBlock(p, BreakLines(Emphasis(p)))>>)
                \o HtmlParagraphs(paragraphs, k + 1)

\* epubService.ts convertTextToHTML
convertTextToHTML(text) ==
    IF Trim(text) = <<>> THEN <<Placeholder>>
    ELSE LET processedText == ReplaceCRLF(text)
             split == SplitParagraphs(processedText)
             lines == SelectSeq(SplitLines(processedText), LAMBDA line : Trim(line) # <<>>)
             paragraphs == IF Len(split) = 1 THEN GroupLines(lines, 1, <<>>, <<>>) ELSE split
         IN HtmlParagraphs(paragraphs, 1)

\* App.tsx lines 599-625: an empty line ends the paragraph, a scene break
\* ends it and is a paragraph of its own
RECURSIVE AppGroupLines(_, _, _, _)
AppGroupLines(singleSplit, k, paragraphs, currentParagraph) ==
    LET pushed == IF Trim(currentParagraph) # <<>>
                  THEN Append(paragraphs, Trim(currentParagraph))
                  ELSE paragraphs
    IN IF k > Len(singleSplit) THEN pushed
       ELSE IF Trim(singleSplit[k]) = <<>>
       THEN AppGroupLines(singleSplit, k + 1, pushed,
                          IF Trim(currentParagraph) # <<>> THEN <<>> ELSE currentParagraph)
       ELSE IF Trim(singleSplit[k]) = SceneBreak
       THEN AppGroupLines(singleSplit, k + 1, Append(pushed, SceneBreak),
                          IF Trim(currentParagraph) # <<>> THEN <<>> ELSE currentParagraph)
       ELSE AppGroupLines(singleSplit, k + 1, paragraphs,
                          (IF currentParagraph # <<>> THEN currentParagraph \o <<"\n">>
                           ELSE currentParagraph) \o singleSplit[k])

\* App.tsx lines 627-650, for the paragraphs from index k on
RECURSIVE AppHtmlContent(_, _)
AppHtmlContent(paragraphs, k) ==
    IF k > Len(paragraphs) THEN <<>>
    ELSE LET p == Trim(paragraphs[k])
         IN (IF p = <<>> THEN <<>>
             ELSE IF p = SceneBreak THEN <<CenteredMarker(p)>>
             ELSE <<ParagraphBlock(p, BreakLines(AppEmphasis(p)))>>)
                \o AppHtmlContent(paragraphs, k + 1)

\* App.tsx convertTextToHTML
AppConvertTextToHTML(text) ==
    IF Trim(text) = <<>> THEN <<Placeholder>>
    ELSE LET normalizedText == ReplaceCR(ReplaceCRLF(text))
             doubleSplit == SplitParagraphs(normalizedText)
             paragraphs == IF Len(doubleSplit) > 1 THEN doubleSplit
                           ELSE AppGroupLines(SplitLines(normalizedText), 1, <<>>, <<>>)
         IN AppHtmlContent(paragraphs, 1)

NoMarkup == [epubService |-> <<>>, app |-> <<>>]

BookParked ==
    /\ epub = NoEpub
    /\ htext = <<>>
    /\ hpc = "parked"
    /\ hout = NoMarkup

HtmlInit ==
    /\ epub = NoEpub
    /\ htext \in HtmlTexts
    /\ hpc = "start"
    /\ hout = NoMarkup

\* the text of a chapter is converted, by either function
ChapterConverted ==
    /\ hpc = "start"
    /\ hpc' = "done"
    /\ hout' = [epubService |-> convertTextToHTML(htext), app |-> AppConvertTextToHTML(htext)]
    /\ UNCHANGED <<epub, htext>>
    /\ UNCHANGED <<retryVars, appVars, glosVars, textVars, collVars>>

NextHtml == ChapterConverted

(***************************************************************************)
(* The operations on a glossary collection.  A segment is identified by    *)
(* its segmentNumber (its id is `segment-${segmentNumber}-${Date.now()}`), *)
(* a character by the segment and the index it was parsed at or, when it   *)
(* was added by hand, by the time it was added.                            *)
(***************************************************************************)
MaxSegments == 2
MaxCharacters == 2
MaxOperations == 2

Character(id, englishName, now) ==
    [id |-> id, englishName |-> englishName, lastModified |-> now]

\* the segment generateGlossarySegments builds from a parsed reply with
\* `count` characters
BuiltSegment(segmentNumber, count) ==
    [id |-> segmentNumber,
     segmentNumber |-> segmentNumber,
     characters |-> [i \in 1..count |->
                        Character([segment |-> segmentNumber, index |-> i], "Parsed", 0)],
     lastModified |-> 0]

\* the segments 1..n that were built (the others were skipped), each with a
\* number of characters, in the order of the loop
RECURSIVE BuiltSegments(_, _, _)
BuiltSegments(n, built, counts) ==
    IF n = 0 THEN <<>>
    ELSE IF n \in built
    THEN Append(BuiltSegments(n - 1, built, counts), BuiltSegment(n, counts[n]))
    ELSE BuiltSegments(n - 1, built, counts)

\* the collections generateGlossarySegments returns: at least one segment
GeneratedCollections ==
    {[segments |-> BuiltSegments(MaxSegments, built, counts), lastModified |-> 0] :
        built \in (SUBSET (1..MaxSegments)) \ {{}},
        counts \in [1..MaxSegments -> 0..MaxCharacters]}

HoldsCharacter(segment, characterId) ==
    \E i \in 1..Len(segment.characters) : segment.characters[i].id = characterId

deleteGlossarySegment(c, segmentId, now) ==
    LET Keep(segment) == segment.id # segmentId
    IN [segments |-> SelectSeq(c.segments, Keep), lastModified |-> now]

updateCharacterInGlossaryCollection(c, characterId, updates, now) ==
    [segments |->
        [k \in 1..Len(c.segments) |->
            IF HoldsCharacter(c.segments[k], characterId)
            THEN [c.segments[k] EXCEPT
                     !.characters =
                         [i \in 1..Len(@) |->
                             IF @[i].id = characterId
                             THEN Character(@[i].id, updates.englishName, now)
                             ELSE @[i]],
                     !.lastModified = now]
            ELSE c.segments[k]],
     lastModified |-> now]

\* addCharacterToGlossaryCollection putting the character into the first
\* segment
addCharacterToGlossaryCollection_First(c, character, now) ==
    IF Len(c.segments) = 0
    THEN [thrown |-> <<"Cannot add character to collection with no segments">>, value |-> c]
    ELSE [thrown |-> <<>>,
          value |-> [segments |->
                        [c.segments EXCEPT
                            ![1].characters =
                                Append(@, Character([segment |-> 0, index |-> now],
                                                    character.englishName, now)),
                            ![1].lastModified = now],
                     lastModified |-> now]]

\* addCharacterToGlossaryCollection: what it throws (<<>>: nothing) and what
\* it returns
addCharacterToGlossaryCollection(c, character, now) ==
    IF Len(c.segments) = 0
    THEN [thrown |-> <<"Cannot add character to collection with no segments">>, value |-> c]
    ELSE LET lastSegmentIndex == Len(c.segments)
         IN [thrown |-> <<>>,
             value |-> [segments |->
                           [c.segments EXCEPT
                               ![lastSegmentIndex].characters =
                                   Append(@, Character([segment |-> 0, index |-> now],
                                                       character.englishName, now)),
                               ![lastSegmentIndex].lastModified = now],
                        lastModified |-> now]]

deleteCharacterFromGlossaryCollection(c, characterId, now) ==
    LET Keep(char) == char.id # characterId
    IN [segments |->
           [k \in 1..Len(c.segments) |->
               LET updatedCharacters == SelectSeq(c.segments[k].characters, Keep)
               IN IF Len(updatedCharacters) # Len(c.segments[k].characters)
                  THEN [c.segments[k] EXCEPT !.characters = updatedCharacters,
                                             !.lastModified = now]
                  ELSE c.segments[k]],
        lastModified |-> now]

NoCollection == [segments |-> <<>>, lastModified |-> 0]

CollParked ==
    /\ collection = NoCollection
    /\ cerror = <<>>
    /\ cclock = 0

CollInit ==
    /\ collection \in GeneratedCollections
    /\ cerror = <<>>
    /\ cclock = 0

\* the ids the user can aim at: those of the segments and characters shown,
\* and those of what was removed before
SegmentIds == 1..MaxSegments
CharacterIds ==
    [segment : 1..MaxSegments, index : 1..MaxCharacters]
        \cup [segment : {0}, index : 1..MaxOperations]

\* one more operation is applied, at the time `cclock + 1`
Operation ==
    /\ cclock < MaxOperations
    /\ cclock' = cclock + 1

DeleteGlossarySegment(segmentId) ==
    /\ Operation
    /\ collection' = deleteGlossarySegment(collection, segmentId, cclock + 1)
    /\ cerror' = <<>>
    /\ UNCHANGED <<retryVars, appVars, glosVars, textVars, bookVars>>

UpdateCharacter(characterId) ==
    /\ Operation
    /\ collection' = updateCharacterInGlossaryCollection(
                         collection, characterId, [englishName |-> "Renamed"], cclock + 1)
    /\ cerror' = <<>>
    /\ UNCHANGED <<retryVars, appVars, glosVars, textVars, bookVars>>

AddCharacter ==
    /\ Operation
    /\ LET added == addCharacterToGlossaryCollection(
                        collection, [englishName |-> "Added"], cclock + 1)
       IN /\ collection' = added.value
          /\ cerror' = added.thrown
    /\ UNCHANGED <<retryVars, appVars, glosVars, textVars, bookVars>>

DeleteCharacter(characterId) ==
    /\ Operation
    /\ collection' = deleteCharacterFromGlossaryCollection(collection, characterId, cclock + 1)
    /\ cerror' = <<>>
    /\ UNCHANGED <<retryVars, appVars, glosVars, textVars, bookVars>>

NextCollection ==
    \/ \E segmentId \in SegmentIds : DeleteGlossarySegment(segmentId)
    \/ \E characterId \in CharacterIds : UpdateCharacter(characterId)
    \/ AddCharacter
    \/ \E characterId \in CharacterIds : DeleteCharacter(characterId)

InitRetry == RetryInit /\ AppInit /\ GlosParked /\ TextParked /\ BookParked /\ CollParked
SpecRetry == InitRetry /\ [][NextRetry]_vars

InitTranslate == RetryParked /\ AppInit /\ GlosParked /\ TextParked /\ BookParked /\ CollParked
SpecTranslate == InitTranslate /\ [][NextTranslate]_vars

SpecRuns == InitTranslate /\ [][NextRuns]_vars

SpecStop == InitTranslate /\ [][NextStop]_vars

\* the runs and the manual input: the user clicks Translate and uses the
\* manual input that a failed chapter opens
NextFallback ==
    \/ \E start \in 1..MaxStartChapter, num \in 0..MaxNumChapters : HandleTranslate(start, num)
    \/ \E api \in RunBehaviours : AttemptReply(api)
    \/ DelayElapsed
    \/ FallbackSubmitEnglish
    \/ FallbackSubmitJapanese
    \/ \E api \in FallbackBehaviours : FallbackReply(api)
    \/ \E text \in FallbackInputs : SetFallbackText(text)
    \/ \E type \in {"japanese", "english"} : SetFallbackType(type)
    \/ CancelFallback

SpecFallback == InitTranslate /\ [][NextFallback]_vars

InitGlossary == RetryParked /\ AppInit /\ GlosInit /\ TextParked /\ BookParked /\ CollParked
SpecGlossary == InitGlossary /\ [][NextGlossary]_vars

InitStorage == RetryParked /\ FirstVisitInit /\ GlosParked /\ TextParked /\ BookParked /\ CollParked
SpecStorage == InitStorage /\ [][NextStorage]_vars

\* the Translate button from the first visit on: the user enters or removes
\* the API key and clicks Translate
NextKeyedRuns ==
    \/ \E key \in ApiKeys \cup {""} : SetGeminiApiKey(key)
    \/ HandleTranslateWithoutKey
    \/ \E start \in 1..MaxStartChapter, num \in 0..MaxNumChapters : HandleTranslate(start, num)
    \/ \E api \in RunBehaviours : AttemptReply(api)
    \/ DelayElapsed

\* every completion call eventually returns or fails, and the timer of the
\* delay between two chapters fires
SpecKeyedRuns ==
    /\ InitStorage
    /\ [][NextKeyedRuns]_vars
    /\ WF_vars(\E api \in RunBehaviours : AttemptReply(api))
    /\ WF_vars(DelayElapsed)

InitDownload == RetryParked /\ DownloadInit /\ GlosParked /\ TextParked /\ BookParked /\ CollParked
SpecDownload == InitDownload /\ [][NextDownload]_vars

InitHtml == RetryParked /\ AppInit /\ GlosParked /\ TextParked /\ HtmlInit /\ CollParked
SpecHtml == InitHtml /\ [][NextHtml]_vars

InitText == RetryParked /\ AppInit /\ GlosParked /\ TextInit /\ BookParked /\ CollParked
SpecText == InitText /\ [][NextText]_vars

InitCollection == RetryParked /\ AppInit /\ GlosParked /\ TextParked /\ BookParked /\ CollInit
SpecCollection == InitCollection /\ [][NextCollection]_vars

(***************************************************************************)
(* Claims about the retry controllers, checked under SpecRetry.            *)
(***************************************************************************)
\* attempts 1 and 2 of the script fail with a transient fault and attempt 3
\* answers with a well-formed translation
TransientTwiceThenSuccess ==
    /\ maxRetries = 3
    /\ script[1] \in TransientFaults
    /\ script[2] \in TransientFaults
    /\ script[3] = Reply(ReplyWithMarkers)

\* C2: translateChapterWithRetry with maxRetries = 3, transient faults on
\* attempts 1 and 2 and a success on attempt 3, ends as a success carrying the
\* translated text after exactly 3 invocations of translateSingleChapter.
C2_SucceedsOnThirdAttempt ==
    (ctl = "storage" /\ rpc = "done" /\ TransientTwiceThenSuccess)
        => /\ result.kind = "success"
           /\ result.text = extractTranslationText(ReplyWithMarkers).text
           /\ invocations = 3

\* the n-th attempt failed with a message that contains a terminal substring
FailsTerminal(n) ==
    /\ Attempt(n).kind \in {"fail", "throw"}
    /\ \E needle \in TerminalNeedles : Includes(Attempt(n).message, needle)

\* C3: in both retry controllers an attempt that fails with a terminal
\* message is never followed by another attempt, whatever maxRetries is (so a
\* terminal failure of the first attempt leaves exactly one attempt and no
\* delay), and the controller reports a failure.
C3_TerminalFailureIsNotRetried ==
    \A n \in 1..invocations :
        FailsTerminal(n)
            => /\ n = invocations
               /\ n = 1 => delays = 0
               /\ rpc = "done" => result.kind \in {"failure", "thrown"}

\* C3 witness: callGeminiApi ended after one attempt that failed with a
\* 'blocked' message, with maxRetries 3
C3_Witness ==
    /\ ctl = "app"
    /\ rpc = "done"
    /\ maxRetries = 3
    /\ script[1] = Fault(<<"Error:", "blocked">>)
    /\ invocations = 1
    /\ result.kind = "thrown"

\* a non-empty reply from which nothing can be extracted but which looks
\* like a chapter
MarkerlessChapter(api) ==
    /\ api.kind = "reply"
    /\ Trim(api.text) # <<>>
    /\ ~extractTranslationText(api.text).success
    /\ \/ Includes(api.text, "[chapter: 1]")
       \/ Includes(api.text, "chapter")
       \/ TextLength(api.text) > 100

\* C4: when the reply to translateChapterWithRetry's first attempt is
\* non-empty, unextractable and chapter-like, exactly one invocation is made,
\* no delay is taken, and the caller gets the TranslationWithoutMarkersError
\* with the full raw text (neither a success nor a failure result).
C4_MarkersErrorPropagatesImmediately ==
    (ctl = "storage" /\ invocations >= 1 /\ MarkerlessChapter(script[1]))
        => /\ invocations = 1
           /\ delays = 0
           /\ rpc = "done" =>
                /\ result.kind = "thrown"
                /\ result.class = "TranslationWithoutMarkersError"
                /\ result.fullText = script[1].text

\* C4 witness: translateChapterWithRetry with maxRetries 3 has thrown the
\* markers error for a chapter-like reply without markers
C4_Witness ==
    /\ ctl = "storage"
    /\ maxRetries = 3
    /\ rpc = "done"
    /\ script[1] = Reply(ReplyNoMarkers)
    /\ MarkerlessChapter(script[1])
    /\ result.kind = "thrown"
    /\ result.fullText = ReplyNoMarkers

(***************************************************************************)
(* Claims about generateGlossarySegments, checked under SpecGlossary.      *)
(***************************************************************************)
\* the segment numbers for which a completion request has been issued
RequestedSegments == {greqs[q].segmentNumber : q \in 1..Len(greqs)}

\* C5: a failed segment only skips that segment: when the run has ended a
\* request was issued for every segment of the range, and the segments that
\* were built are returned in the collection of a successful result.
C5_FailedSegmentIsOnlySkipped ==
    gresult.done
        => /\ RequestedSegments = 1..totalSegments
           /\ segments # <<>> => gresult.success /\ gresult.segments = segments

\* the context payload of the request in flight
ContextInFlight == greqs[Len(greqs)].context

\* C6: the context payload of the request in flight holds every character of
\* every segment built earlier in the run, whatever their number.
C6_ContextHoldsEveryEarlierCharacter ==
    gpc = "call"
        => \A k \in 1..Len(segments) : \A c \in 1..Len(segments[k].characters) :
               \E x \in 1..Len(ContextInFlight) :
                   ContextInFlight[x] = segments[k].characters[c]

\* number of characters of the segments built before the k-th built one
RECURSIVE CharactersBefore(_)
CharactersBefore(k) ==
    IF k <= 1 THEN 0 ELSE CharactersBefore(k - 1) + Len(segments[k - 1].characters)

\* C6 as amended: the context payload of the request in flight holds the
\* characters of the segments built earlier, in the order of the segments
\* and of their characters, up to the 30th: all of them when they are at
\* most 30, the first 30 otherwise.
C6_ContextHoldsFirstThirtyCharacters ==
    gpc = "call"
        => /\ Len(ContextInFlight) = Min(30, CharactersBefore(Len(segments) + 1))
           /\ \A k \in 1..Len(segments) : \A c \in 1..Len(segments[k].characters) :
                  CharactersBefore(k) + c <= 30
                      => ContextInFlight[CharactersBefore(k) + c] = segments[k].characters[c]

\* C6 witness: the request of the third segment is in flight after two
\* segments of 16 characters each, and its context holds 30 characters
C6_Witness ==
    /\ gpc = "call"
    /\ segmentIndex = 2
    /\ Len(segments) = 2
    /\ CharactersBefore(3) = 32
    /\ Len(ContextInFlight) = 30
    /\ ContextInFlight[30] = [segment |-> 2, index |-> 14]

\* the chapter range the claim gives to segment k (1-based)
ClaimedRange(k) ==
    [start |-> gopts.start + 10 * (k - 1),
     end |-> gopts.start + Min(10 * k, gopts.n) - 1]

\* C7: requests are issued for exactly ceil(n/10) segments in increasing
\* order, segment k covering s+10(k-1) .. s+min(10k, n)-1, the ranges being
\* pairwise disjoint and covering s .. s+n-1; when every segment succeeds the
\* collection holds exactly those segments in that order.
C7_EverySegmentIsRequestedInOrder ==
    gresult.done
        => /\ RequestedSegments = 1..CeilDiv(gopts.n, 10)
           /\ \A p, q \in 1..Len(greqs) :
                  p < q => greqs[p].segmentNumber <= greqs[q].segmentNumber
           /\ \A q \in 1..Len(greqs) :
                  greqs[q].chapterRange = ClaimedRange(greqs[q].segmentNumber)
           /\ \A j, k \in RequestedSegments :
                  j < k => ClaimedRange(j).end < ClaimedRange(k).start
           /\ \A ch \in gopts.start..(gopts.start + gopts.n - 1) :
                  \E k \in RequestedSegments :
                      ClaimedRange(k).start <= ch /\ ch <= ClaimedRange(k).end
           /\ Len(gresult.segments) = CeilDiv(gopts.n, 10)
                  => \A k \in 1..Len(gresult.segments) :
                         /\ gresult.segments[k].segmentNumber = k
                         /\ gresult.segments[k].chapterRange = ClaimedRange(k)

(***************************************************************************)
(* Claims about handleTranslate and the chapter list: C1 is checked under  *)
(* SpecRuns, C8 and C9 under SpecTranslate.                                *)
(***************************************************************************)
Occurrences(list, x) == Cardinality({j \in 1..Len(list) : list[j] = x})

\* `list` holds exactly the records of `a` and of `b`, in any order
HoldsExactly(list, a, b) ==
    /\ Len(list) = Len(a) + Len(b)
    /\ \A j \in 1..Len(list) : Occurrences(list, list[j]) = Occurrences(a \o b, list[j])

\* the chapter whose translation is in flight
CurrentChapter == run.start + run.i

\* a step in which the translation of the chapter in flight fails for good
ChapterFails == pc = "call" /\ pc' = "idle" /\ status'.kind # "allDone"

C1_Step ==
    /\ ChapterFails
           => /\ HoldsExactly(translatedChapters', run.initial, run.added)
              /\ {run.added[j].chapterNumber : j \in 1..Len(run.added)}
                     = {c \in run.start..(CurrentChapter - 1) : ~HasChapter(run.initial, c)}
              /\ status'.chapter = CurrentChapter
              /\ fallbackChapterNumber' = CurrentChapter
              /\ showFallbackInput'
              /\ ~isTranslating'
              /\ requests' = <<>>
    /\ requests' # requests /\ requests' # <<>>
           => /\ pc' = "call"
              /\ \A q \in 1..Len(requests') : requests'[q] <= run'.start + run'.i
              /\ requests'[Len(requests')] = run'.start + run'.i

\* C1: when the translation of chapter k fails the run halts: the list then
\* holds exactly the records it held when the run started plus the chapters
\* the run translated before k (every chapter from the start chapter to k-1
\* that was missing), the failure point reported is k with the manual-input
\* offer shown and isTranslating false, and a run never issues a request for
\* a chapter after the one it is at.
C1_FailureHaltsTheRun == [][C1_Step]_vars

\* C1 witness: a first run that started at chapter 1 has stopped at chapter
\* 2 and the list holds exactly chapter 1
C1_Witness ==
    /\ pc = "idle"
    /\ budget = [runs |-> 1, gestures |-> 0]
    /\ status = Status("stopped", 2)
    /\ fallbackChapterNumber = 2
    /\ showFallbackInput
    /\ ~isTranslating
    /\ Len(translatedChapters) = 1
    /\ translatedChapters[1].chapterNumber = 1

\* C8: the chapter list holds at most one record per chapterNumber.
C8_OneRecordPerChapterNumber ==
    \A j, k \in 1..Len(translatedChapters) :
        j # k => translatedChapters[j].chapterNumber # translatedChapters[k].chapterNumber

C9_Step ==
    /\ pc # "idle" /\ translatedChapters' # translatedChapters => pc' = "idle"
    /\ pc # "idle" /\ pc' = "idle" => translatedChapters = run.initial

\* C9: while a run is in progress the list is changed only by the run, when
\* it stores its result, and the list it then replaces is still the one the
\* run started with, so that no change made by the user is overwritten.
C9_OnlyTheRunChangesTheList == [][C9_Step]_vars

(***************************************************************************)
(* Claim about the cancellation of a run, checked under SpecStop.          *)
(***************************************************************************)
C10_Step ==
    \* setting the flag leaves the request in flight and the run alone
    /\ ~stopRequested /\ stopRequested'
           => UNCHANGED <<pc, run, requests, translatedChapters, isTranslating>>
    \* with the flag set the request in flight completes and its chapter is kept
    /\ stopRequested /\ pc = "call" /\ pc' = "delay"
           => /\ \E j \in 1..Len(run'.added) : run'.added[j].chapterNumber = CurrentChapter
              /\ HoldsExactly(run'.list, run.list, <<run'.added[Len(run'.added)]>>)
    /\ stopRequested /\ pc = "call" /\ pc' = "idle" /\ status'.kind = "allDone"
           => /\ HasChapter(translatedChapters', CurrentChapter)
              /\ Len(translatedChapters') = Len(run.list) + 1
    \* the loop then halts before the next chapter and stores every chapter
    \* completed so far
    /\ stopRequested /\ pc = "delay" /\ pc' # "delay"
           => /\ pc' = "idle"
              /\ ~isTranslating'
              /\ requests' = <<>>
              /\ HoldsExactly(translatedChapters', run.initial, run.added)
    \* and no request is issued for another chapter while the flag is set
    /\ stopRequested /\ stopRequested' /\ requests' # requests /\ requests' # <<>>
           => pc = "call" /\ requests'[Len(requests')] = CurrentChapter

SkippedAndContinued ==
    /\ \A k \in 1..Len(segments) : segments[k].segmentNumber # glast.segmentNumber
    /\ glast.segmentNumber < totalSegments
           => \E r \in 1..Len(greqs) : greqs[r].segmentNumber = glast.segmentNumber + 1
    /\ gresult.done
           => \/ gresult.success
              \/ gresult.error = <<"No segments were successfully generated">>
              \/ IsRateLimit(gresult.error) \/ gresult.error = <<"fetch failed">>

\* C15: parseGlossaryResponse never throws.  When parsing the repaired text
\* throws it tries the characters-array strategy and returns what that
\* finds; when that strategy fails too, or finds no characters array, it
\* returns null, and generateGlossarySegments then skips the segment and goes
\* on with the next one.
C15_ParserNeverThrowsAndNullSkipsTheSegment ==
    glast.called =>
        /\ glast.outcome.kind \in {"glossary", "null"}
        /\ (glast.reply.primary \in {"syntax_error", "type_error"}
                /\ glast.reply.fallback = "ok")
               => glast.outcome.kind = "glossary" /\ glast.outcome.strategy = "fallback"
        /\ (glast.reply.primary \in {"syntax_error", "type_error"}
                /\ glast.reply.fallback # "ok")
               => glast.outcome.kind = "null"
        /\ glast.outcome.kind = "null" => SkippedAndContinued

\* C15 witness: the reply to the first of three segments was no JSON at all,
\* the parser returned null, and the second segment has been requested
C15_Witness ==
    /\ glast.called
    /\ glast.segmentNumber = 1
    /\ glast.reply = GlossaryReply(FALSE, "syntax_error", "no_match", 0)
    /\ glast.outcome = ReturnNull
    /\ totalSegments = 3
    /\ gpc = "call"
    /\ segmentIndex = 1
    /\ segments = <<>>

(***************************************************************************)
(* Claim about the persistent storage, checked under SpecStorage.          *)
(***************************************************************************)
\* C16: whatever the user does (entering the key, translating, editing,
\* clearing), the persistent storage holds neither the Gemini API key nor
\* the text of any translated chapter.
C16_StorageHoldsNoKeyAndNoTranslation ==
    /\ localStorage.wnt_gemini_api_key \notin ApiKeys
    /\ localStorage.wnt_translated_chapters = <<>>

(***************************************************************************)
(* Claims about the extractor and one translation attempt, checked under   *)
(* SpecText.                                                               *)
(***************************************************************************)
IsStartSentinel(t) ==
    \E k \in 1..Len(START_MARKERS) : ToLowerCase(t) = ToLowerCase(START_MARKERS[k])
IsEndSentinel(t) ==
    \E k \in 1..Len(END_MARKERS) : ToLowerCase(t) = ToLowerCase(END_MARKERS[k])
IsSentinel(t) == IsStartSentinel(t) \/ IsEndSentinel(t)

\* s holds one start sentinel, at i, and one end sentinel, at j, after it
SentinelsAt(s, i, j) ==
    /\ i \in 1..Len(s) /\ j \in 1..Len(s) /\ i < j
    /\ IsStartSentinel(s[i]) /\ IsEndSentinel(s[j])
    /\ \A x \in 1..Len(s) : IsSentinel(s[x]) => x \in {i, j}

\* C11: a raw text that holds a start sentinel variant and, after it, an end
\* sentinel variant is extracted successfully, and the extracted text is
\* exactly the trimmed text between the two sentinels, whatever stands
\* before the start sentinel and after the end sentinel.  (Stated for the
\* texts whose part between the sentinels is not blank: for a blank part
\* extractTranslationText reports a failure by design.)
C11_ExtractsWhatIsBetweenTheSentinels ==
    tpc = "done" =>
        \A i, j \in 1..Len(raw) :
            (SentinelsAt(raw, i, j) /\ Trim(SubSeq(raw, i + 1, j - 1)) # <<>>) =>
                tout.extraction = [success |-> TRUE, text |-> Trim(SubSeq(raw, i + 1, j - 1))]

\* a chapter-title line starts at q of s: q starts a line, and some free
\* text from q on is followed, on that line, by the chapter tag
TitleLineStartsAt(s, q) ==
    /\ q \in 1..Len(s)
    /\ q = 1 \/ s[q - 1] = "\n"
    /\ \E j \in (q + 1)..Len(s) :
         /\ IsChapterTag(s[j])
         /\ \A x \in q..j : s[x] # "\n"

\* s holds no start sentinel and one end sentinel, at j
OnlyEndSentinelAt(s, j) ==
    /\ j \in 1..Len(s)
    /\ IsEndSentinel(s[j])
    /\ \A x \in 1..Len(s) : IsSentinel(s[x]) => x = j

\* C12: when a raw text holds no start sentinel but a chapter-title line
\* (free text followed by the chapter tag) before its end sentinel, the
\* recovery succeeds and returns the text from the first such title line up
\* to the end sentinel, trimmed.
C12_RecoversFromTheTitleLine ==
    tpc = "done" =>
        \A q, j \in 1..Len(raw) :
            (/\ OnlyEndSentinelAt(raw, j)
             /\ TitleLineStartsAt(SubSeq(raw, 1, j - 1), q)
             /\ \A x \in 1..(q - 1) : ~TitleLineStartsAt(SubSeq(raw, 1, j - 1), x)) =>
                tout.extraction = [success |-> TRUE, text |-> Trim(SubSeq(raw, q, j - 1))]

\* the outcome of an attempt is a failure that is neither a success nor the
\* markers-missing outcome that carries the raw text
PlainFailure(o) ==
    /\ o.kind \in {"fail", "throw"}
    /\ o.class # "TranslationWithoutMarkersError"
    /\ o.message # MsgWithoutMarkers
    /\ o.fullText = NoText

\* a non-empty text without any sentinel, shorter than the chapter-like length
ShortWithoutSentinel(s) ==
    /\ s # <<>>
    /\ \A x \in 1..Len(s) : ~IsSentinel(s[x])
    /\ TextLength(s) < ChapterLikeLength

Ascending(pages) ==
    \A k \in 1..(Len(pages) - 1) : pages[k].chapterNumber <= pages[k + 1].chapterNumber

\* C17: generateAndDownloadEPUB and handleDownload hand the chapters to the
\* book in ascending order of chapterNumber, whatever the order of the list
\* they are given, and every record of that list is in the book exactly
\* once.
C17_BookHoldsEveryRecordOnceInOrder ==
    epub.by # "none" =>
        /\ Ascending(epub.pages)
        /\ Len(epub.pages) = Len(epub.chapters)
        /\ \A k \in 1..Len(epub.chapters) :
               Occurrences(epub.pages, epub.chapters[k])
                   = Occurrences(epub.chapters, epub.chapters[k])

\* the lines of the text that hold the scene-break token and nothing else
SceneBreakLines(text) ==
    {k \in 1..Len(SplitLines(text)) : Trim(SplitLines(text)[k]) = SceneBreak}

\* the markup holds a centered marker for every scene-break line of the
\* text, and none of its paragraphs holds such a line
MarkersApart(text, markup) ==
    /\ Cardinality({b \in 1..Len(markup) : markup[b].tag = "div"})
           >= Cardinality(SceneBreakLines(text))
    /\ \A b \in 1..Len(markup) :
           markup[b].tag = "p" => SceneBreakLines(markup[b].source) = {}

\* C18: when the scene-break token *** stands alone on a line of the text,
\* with or without blank lines around it, the markup of both
\* convertTextToHTML functions holds a centered marker for it that is a
\* block of its own, apart from the paragraphs of the lines before and
\* after it.
C18_SceneBreakIsABlockOfItsOwn ==
    hpc = "done" =>
        /\ MarkersApart(htext, hout.epubService)
        /\ MarkersApart(htext, hout.app)

(***************************************************************************)
(* Claims about callGeminiApi (App.tsx), checked under SpecRetry.          *)
(***************************************************************************)
\* the n-th attempt of callGeminiApi threw the TRANSLATION_WITHOUT_MARKERS
\* error: its reply had content, no usable markers, and looked like a chapter
ThrowsWithoutMarkers(n) ==
    /\ Attempt(n).kind = "throw"
    /\ Attempt(n).message = MsgWithoutMarkers
    /\ Attempt(n).fullText = script[n].text

\* C19: when the first translateSingleChapter invocation of callGeminiApi
\* throws the TRANSLATION_WITHOUT_MARKERS error, no second invocation is made
\* and no delay is taken, and the caller gets that error with the raw text of
\* that attempt.
C19_MarkersErrorIsNotRetried ==
    (ctl = "app" /\ invocations >= 1 /\ ThrowsWithoutMarkers(1))
        => /\ invocations = 1
           /\ delays = 0
           /\ rpc = "done" =>
                /\ result.kind = "thrown"
                /\ result.message = MsgWithoutMarkers
                /\ result.fullText = script[1].text

\* callGeminiApi classifies the failure of an attempt as one it does not retry
ClassifiedTerminal(attempt) ==
    /\ attempt.kind # "ok"
    /\ \/ AccessDenied(attempt.message)
       \/ EncodingError(attempt.message)
       \/ ContentAccessIssue(attempt.message)

\* the n-th attempt failed and its failure is not classified as terminal
FailsRetryable(n) == Attempt(n).kind # "ok" /\ ~ClassifiedTerminal(Attempt(n))

\* the k-th attempt is the first to succeed, after retryable failures only
FirstSuccessAt(k) ==
    /\ Attempt(k).kind = "ok"
    /\ \A j \in 1..(k - 1) : FailsRetryable(j)

EndsWithoutMarkers(api) ==
    LET step == callGeminiApiStep(run.retries, AppTranslateSingleChapter(api))
    IN /\ pc = "call"
       /\ step.act = "throw"
       /\ step.out.message = MsgWithoutMarkers
       /\ step.out.fullText # <<>>

\* in this step the translation of the chapter in flight ends with the
\* markers-missing error: no record of the chapter is in the list, the run has
\* stopped, and the manual input shows the raw text of the reply as English
SurfacedForReview ==
    \A api \in RunBehaviours :
        (EndsWithoutMarkers(api) /\ AttemptReply(api))
            => /\ ~HasChapter(translatedChapters', run.start + run.i)
               /\ translatedChapters' = Rendered(run.list)
               /\ pc' = "idle"
               /\ ~isTranslating'
               /\ requests' = <<>>
               /\ showFallbackInput'
               /\ fallbackChapterNumber' = run.start + run.i
               /\ fallbackText' = api.text
               /\ fallbackType' = "english"

\* the raw texts a markers-missing error can carry
AmbiguousTexts ==
    {api.text : api \in {b \in RunBehaviours :
                             AppTranslateSingleChapter(b).message = MsgWithoutMarkers}}

\* the manual input offers the raw text of a chapter that is not in the list
AwaitsReview ==
    /\ showFallbackInput
    /\ fallbackType = "english"
    /\ ~HasChapter(translatedChapters, fallbackChapterNumber)
    /\ fallbackText \in AmbiguousTexts

\* this step is the end of a handleFallbackSubmit
IsFallbackSubmit ==
    \/ FallbackSubmitEnglish
    \/ \E api \in FallbackBehaviours : FallbackReply(api)

\* this step is a step of a handleTranslate run
IsRunStep ==
    \/ \E api \in RunBehaviours : AttemptReply(api)
    \/ DelayElapsed

C21_OnlySubmitStep ==
    /\ SurfacedForReview
    /\ (AwaitsReview /\ HasChapter(translatedChapters', fallbackChapterNumber))
           => IsFallbackSubmit

\* C21 as claimed: a markers-missing error adds no record, stops the run and
\* pre-fills the manual input with the raw text as English, and from then on
\* only a handleFallbackSubmit puts a record of that chapter into the list.
C21_OnlyTheManualInputAddsTheChapter == [][C21_OnlySubmitStep]_vars

C21_SubmitOrRunStep ==
    /\ SurfacedForReview
    /\ (AwaitsReview /\ HasChapter(translatedChapters', fallbackChapterNumber))
           => IsFallbackSubmit \/ IsRunStep

\* C21 amended: a markers-missing error adds no record, stops the run and
\* pre-fills the manual input with the raw text as English, and from then on
\* only a handleFallbackSubmit or a later handleTranslate run that translates
\* the chapter again puts a record of that chapter into the list.
C21_NeverAutoAccepted == [][C21_SubmitOrRunStep]_vars

\* C21 witness: the raw text of chapter 1 was surfaced and then entered the
\* list through the manual input
C21_Witness ==
    /\ status = Status("addedManually", 1)
    /\ translatedChapters = <<Chapter(1, Trim(ReplyNoMarkers))>>
    /\ ~showFallbackInput
    /\ budget = [runs |-> 1, gestures |-> 1]

(***************************************************************************)
(* More claims about generateGlossarySegments, checked under SpecGlossary. *)
(***************************************************************************)
\* the q-th completion request is the first one of its segment (the others
\* are the retries of the rate-limit loop)
FirstRequestOfSegment(q) ==
    q = 1 \/ greqs[q].segmentNumber # greqs[q - 1].segmentNumber

\* C22: the first completion request of every segment but the first one is
\* issued after the inter-segment delay (35 s for gemini-2.5-pro, 8 s
\* otherwise), whatever the outcome of the segment before it.
C22_DelayBeforeEverySegment ==
    \A q \in 2..Len(greqs) :
        FirstRequestOfSegment(q)
            => greqs[q].waited = (IF gopts.model = "gemini-2.5-pro" THEN 35 ELSE 8)

\* the backoff delays of the rate-limit loop, in seconds
Backoff == <<15, 30, 60>>

\* the completion requests issued for segment number s
RequestsOf(s) == {q \in 1..Len(greqs) : greqs[q].segmentNumber = s}

C23_Bounds ==
    /\ \A s \in 1..totalSegments : Cardinality(RequestsOf(s)) <= GlossaryMaxRetries + 1
    /\ Len(greqs) <= (GlossaryMaxRetries + 1) * CeilDiv(gopts.n, segmentSize)
    /\ \A d \in 1..Len(gdelays) : gdelays[d] \in {15, 30, 60} /\ gdelays[d] <= 60
    /\ gpc = "done" =>
         /\ gresult.done
         /\ gresult.success => gresult.segments # <<>>
         /\ ~gresult.success => gresult.error # <<>>
    /\ gpc # "done" => ENABLED NextGlossary

\* a step of the run: it ends the run or issues exactly one more request; a
\* request for the same segment again follows a rate-limit-class failure and
\* the next backoff delay
C23_Step ==
    \A api \in GlossaryBehaviours :
        SegmentCallEnds(api)
            => /\ gpc' = "done" \/ Len(greqs') = Len(greqs) + 1
               /\ (gpc' = "call" /\ segmentIndex' = segmentIndex)
                    => /\ api.kind = "fault"
                       /\ \E needle \in {"429", "quota", "rate"} :
                              Includes(api.message, needle)
                       /\ retryCount' = retryCount + 1
                       /\ retryCount' <= GlossaryMaxRetries
                       /\ gdelays' = Append(gdelays, Backoff[retryCount'])

\* C23: generateGlossarySegments ends with a result value: every segment
\* gets at most 4 completion calls, a call is repeated only after a
\* rate-limit-class failure and after a backoff of 15 s, 30 s, 60 s, a run
\* over n URLs issues at most 4 x ceil(n/10) calls, every step of the run
\* ends it or issues one more call (so it ends after at most that many
\* calls), and it ends with a success or an error result.
C23_TerminatesWithinFourCallsPerSegment ==
    /\ []C23_Bounds
    /\ [][C23_Step]_vars

\* C23 witness: the fourth call of segment 2 failed with a rate-limit error
\* after the delays 15, 30, 60 and the run ended with an error result
C23_Witness ==
    /\ gpc = "done"
    /\ gopts.n = 11
    /\ Cardinality(RequestsOf(2)) = 4
    /\ gdelays = <<15, 30, 60>>
    /\ ~gresult.success
    /\ gresult.error = <<"429", "Too Many Requests">>

\* chapter c lies in the chapterRange of a segment of the returned collection
CoveredBySegment(c) ==
    \E k \in 1..Len(gresult.segments) :
        /\ gresult.segments[k].chapterRange.start <= c
        /\ c <= gresult.segments[k].chapterRange.end

\* C24: in a returned collection lastProcessedChapter is the end chapter of
\* one of its segments, it does not exceed the last chapter submitted, and
\* every chapter from chapterRange.start to it lies in the range of one of
\* the segments.
C24_LastProcessedChapterWasProcessed ==
    (gresult.done /\ gresult.success)
        => /\ gresult.lastProcessedChapter <= gopts.start + gopts.n - 1
           /\ \E k \in 1..Len(gresult.segments) :
                  gresult.segments[k].chapterRange.end = gresult.lastProcessedChapter
           /\ \A c \in gopts.start..gresult.lastProcessedChapter : CoveredBySegment(c)

(***************************************************************************)
(* Claims about the chapter editor and the progress, checked under         *)
(* SpecTranslate and SpecRuns.                                             *)
(***************************************************************************)
\* C25: editingChapter is null (modelled as 0) or the chapterNumber of a
\* record of the chapter list.
C25_EditingChapterIsInTheList ==
    editingChapter = 0 \/ HasChapter(translatedChapters, editingChapter)

\* C26: translationProgress is an integer between 0 and 100.
C26_ProgressIsAPercentage ==
    translationProgress \in 0..100

\* the reply follows the contract of directTranslationPrompt: it starts with
\* ***TRANSLATION_START*** and ends with ***TRANSLATION_END***
FollowsContract(api) ==
    /\ api.kind = "reply"
    /\ Len(api.text) >= 2
    /\ api.text[1] = "***TRANSLATION_START***"
    /\ api.text[Len(api.text)] = "***TRANSLATION_END***"

\* what is between the two sentinels of such a reply
Payload(text) == SubSeq(text, 2, Len(text) - 1)

C27_Step ==
    \A api \in FallbackBehaviours :
        (FollowsContract(api) /\ FallbackReply(api))
            => \E k \in 1..Len(translatedChapters') :
                   /\ translatedChapters'[k].chapterNumber = fbPending.chapterNumber
                   /\ translatedChapters'[k].translatedText = Trim(Payload(api.text))
                   /\ ~Includes(translatedChapters'[k].translatedText,
                                "***TRANSLATION_START***")
                   /\ ~Includes(translatedChapters'[k].translatedText,
                                "***TRANSLATION_END***")

\* C27: when the reply to the direct-text fallback of handleFallbackSubmit
\* is wrapped in ***TRANSLATION_START*** and ***TRANSLATION_END***, the text
\* stored for the chapter is the trimmed payload between the two sentinels
\* and contains neither of them.
C27_DirectFallbackStoresThePayload == [][C27_Step]_vars

\* the records of `list` for chapter number c, in the order of the list
RecordsOf(list, c) == SelectSeq(list, LAMBDA r : r.chapterNumber = c)

\* a run ends in this step: the run in progress, or one that starts and
\* finds nothing to translate
RunEnds == pc' = "idle" /\ (pc # "idle" \/ budget'.runs # budget.runs)

\* the list the run that ends in this step started with
ListAtStart == IF pc # "idle" THEN run.initial ELSE translatedChapters

C28_Step ==
    /\ \A q \in 1..Len(requests') : ~HasChapter(run'.initial, requests'[q])
    /\ \A j \in 1..Len(run'.added) : ~HasChapter(run'.initial, run'.added[j].chapterNumber)
    /\ RunEnds =>
         \A k \in 1..Len(ListAtStart) :
             RecordsOf(translatedChapters', ListAtStart[k].chapterNumber)
                 = RecordsOf(ListAtStart, ListAtStart[k].chapterNumber)

\* C28: for a chapter number that is in the list when a handleTranslate run
\* starts, the run issues no completion request and pushes no record, and
\* when the run ends the list holds for that number the records it held at
\* the start, with the same translatedText.
C28_ExistingChaptersAreLeftAlone == [][C28_Step]_vars

\* C28 witness: chapter 2 was in the list when a run over chapters 1 to 3
\* started; the run has requested chapter 1 and then chapter 3
C28_Witness ==
    /\ pc = "call"
    /\ run.start = 1
    /\ run.num = 3
    /\ Len(run.initial) = 1
    /\ run.initial[1].chapterNumber = 2
    /\ requests = <<1, 3>>
    /\ translatedChapters = run.initial

\* a handleTranslate run is active: it is waiting for a completion call or
\* for the delay between two chapters
RunActive == pc # "idle"

C29_Step ==
    HandleTranslateWithoutKey => ~isTranslating /\ ~isTranslating' /\ ~RunActive'

\* C29: isTranslating is true exactly while a handleTranslate run is
\* active; a click rejected for the missing API key leaves it false; a run
\* issues at most 3 completion calls per chapter; and when every completion
\* call ends, a run that set isTranslating sets it back to false.
C29_TranslatingExactlyDuringARun ==
    /\ [](isTranslating <=> RunActive)
    /\ [](\A c \in UserChapters : Occurrences(requests, c) <= AppMaxRetries)
    /\ [][C29_Step]_vars
    /\ (isTranslating ~> ~isTranslating)

\* C29 witness: after a rejected click the key was entered, a run started
\* and failed on its first chapter after 3 calls, and isTranslating is false
C29_Witness ==
    /\ geminiApiKey # ""
    /\ budget = [runs |-> 1, gestures |-> 1]
    /\ status = Status("failed", 1)
    /\ ~isTranslating
    /\ ~RunActive
    /\ showFallbackInput
    /\ fallbackChapterNumber = 1

(***************************************************************************)
(* Claim about the operations on a glossary collection, checked under      *)
(* SpecCollection.                                                         *)
(***************************************************************************)
\* segmentNumber is strictly increasing along the list
IncreasingSegments(list) ==
    \A j, k \in 1..Len(list) : j < k => list[j].segmentNumber < list[k].segmentNumber

\* the segments before and after the step
Before == collection.segments
After == collection'.segments

\* the list has as many segments after the step as before, and every segment
\* that does not hold the character is the same
OnlyHoldersChange(characterId) ==
    /\ Len(After) = Len(Before)
    /\ \A k \in 1..Len(Before) :
           /\ After[k].id = Before[k].id
           /\ After[k].segmentNumber = Before[k].segmentNumber
           /\ ~HoldsCharacter(Before[k], characterId) => After[k] = Before[k]

C30_Step ==
    /\ IncreasingSegments(Before) => IncreasingSegments(After)
    /\ \A segmentId \in SegmentIds :
           DeleteGlossarySegment(segmentId)
               => /\ \A k \in 1..Len(After) : After[k].id # segmentId
                  /\ \A k \in 1..Len(Before) :
                         Before[k].id # segmentId
                             => \E m \in 1..Len(After) : After[m] = Before[k]
                  /\ Len(After) = Cardinality({k \in 1..Len(Before) : Before[k].id # segmentId})
    /\ \A characterId \in CharacterIds :
           /\ UpdateCharacter(characterId)
                  => /\ OnlyHoldersChange(characterId)
                     /\ \A k \in 1..Len(Before) :
                            /\ Len(After[k].characters) = Len(Before[k].characters)
                            /\ \A i \in 1..Len(Before[k].characters) :
                                   /\ After[k].characters[i].id = Before[k].characters[i].id
                                   /\ Before[k].characters[i].id # characterId
                                          => After[k].characters[i] = Before[k].characters[i]
                                   /\ Before[k].characters[i].id = characterId
                                          => After[k].characters[i].englishName = "Renamed"
           /\ DeleteCharacter(characterId)
                  => /\ OnlyHoldersChange(characterId)
                     /\ \A k \in 1..Len(Before) :
                            /\ ~HoldsCharacter(After[k], characterId)
                            /\ After[k].characters
                                   = SelectSeq(Before[k].characters,
                                               LAMBDA char : char.id # characterId)
    /\ AddCharacter
           => /\ (cerror' # <<>>) <=> (Before = <<>>)
              /\ cerror' # <<>> => collection' = collection
              /\ cerror' = <<>>
                     => /\ Len(After) = Len(Before)
                        /\ \A k \in 1..(Len(Before) - 1) : After[k] = Before[k]
                        /\ After[Len(After)].id = Before[Len(Before)].id
                        /\ Len(After[Len(After)].characters)
                               = Len(Before[Len(Before)].characters) + 1
                        /\ SubSeq(After[Len(After)].characters, 1,
                                  Len(Before[Len(Before)].characters))
                               = Before[Len(Before)].characters

\* C30: under any sequence of deleteGlossarySegment,
\* updateCharacterInGlossaryCollection, addCharacterToGlossaryCollection and
\* deleteCharacterFromGlossaryCollection on a generated collection,
\* segmentNumber stays strictly increasing along the list; delete-segment
\* removes the segment with the given id and no other; update and delete of
\* a character change only the segments that hold its id; add changes only
\* the last segment, and throws, leaving the collection as it is, exactly
\* when the collection has no segments.
C30_OperationsKeepTheSegmentsApart ==
    /\ []IncreasingSegments(collection.segments)
    /\ [][C30_Step]_vars

\* C30 witness: a character of segment 1 was renamed and then a character
\* was added: the first operation touched segment 1 only, the second the
\* last segment only
C30_Witness ==
    /\ cclock = 2
    /\ cerror = <<>>
    /\ Len(collection.segments) = 2
    /\ collection.segments[1].segmentNumber = 1
    /\ collection.segments[1].lastModified = 1
    /\ Len(collection.segments[1].characters) = 1
    /\ collection.segments[1].characters[1].englishName = "Renamed"
    /\ collection.segments[2].segmentNumber = 2
    /\ collection.segments[2].lastModified = 2
    /\ Len(collection.segments[2].characters) = 3
    /\ collection.segments[2].characters[3].englishName = "Added"
====
